---------------------------- MODULE Spec2Model ----------------------------
(***************************************************************************)
(* KickBackend: the two-level fetch / parse / cache subsystem.             *)
(*                                                                         *)
(*   CacheService        htmlCache (PageCache), statusCache (VerdictCache) *)
(*   getMappedPlayerName the alias table (NameMapper)                      *)
(*   DomFilterService    container check, filters, injury classification   *)
(*   PlayerStatusParser  parsePlayerStatus (single), preparsePlayers (bulk)*)
(*   HtmlParser          the facade (fetchAndParsePlayerStatus)            *)
(*                                                                         *)
(* JavaScript strings are sequences of one-character strings, so that      *)
(* toLowerCase, trim and includes are computed and not assumed.  A page is *)
(* the sequence of its div.player_name nodes in document order, each with  *)
(* its chain of ancestors (nearest first); the raw HTML text of a page is  *)
(* rendered from that structure.                                           *)
(***************************************************************************)
EXTENDS Integers, Sequences, FiniteSets, TLC

VARIABLES
    now,                    \* Date.now(), in abstract clock units
    htmlCache,              \* CacheService.htmlCache   : url -> HtmlCacheEntry
    statusCache,            \* CacheService.statusCache : key -> StatusCacheEntry
    htmlCacheDurationMs,    \* CacheService.htmlCacheDurationMs
    statusCacheDurationMs,  \* CacheService.statusCacheDurationMs
    calls,                  \* how many calls that write to a cache have run
    last,                   \* the call that ran last: its arguments and return value
    pending,                \* url -> how many fetchHtml calls await httpClient.get
    inflight                \* call id -> the call suspended at `await httpClient.get`

vars == <<now, htmlCache, statusCache, htmlCacheDurationMs, statusCacheDurationMs,
          calls, last, pending, inflight>>

---------------------------------------------------------------------------
(* Bounds of the model *)

\* the clock runs from 0 to MaxTime
MaxTime == 2
\* cache durations handed to the constructor range over 1..MaxDuration
MaxDuration == 1
\* a page holds at most MaxNodes div.player_name nodes
MaxNodes == 2
\* a run of the service holds at most MaxPasses preparsePlayers passes
MaxPasses == 2
\* a run of CacheSpec holds at most MaxWrites cachePlayerStatus calls
MaxWrites == 1
\* how many fetchHtml and cacheHtml calls a run of the HTML service makes
MaxFetches == 2
\* the server is followed for MaxUptime quarters of an hour after it starts
MaxUptime == 5

---------------------------------------------------------------------------
(* JavaScript strings *)

LowerMap ==
    ("A" :> "a") @@ ("B" :> "b") @@ ("C" :> "c") @@ ("D" :> "d") @@ ("E" :> "e") @@
    ("F" :> "f") @@ ("G" :> "g") @@ ("H" :> "h") @@ ("I" :> "i") @@ ("J" :> "j") @@
    ("K" :> "k") @@ ("L" :> "l") @@ ("M" :> "m") @@ ("N" :> "n") @@ ("O" :> "o") @@
    ("P" :> "p") @@ ("Q" :> "q") @@ ("R" :> "r") @@ ("S" :> "s") @@ ("T" :> "t") @@
    ("U" :> "u") @@ ("V" :> "v") @@ ("W" :> "w") @@ ("X" :> "x") @@ ("Y" :> "y") @@
    ("Z" :> "z")

\* String.prototype.toLowerCase
toLowerCase(s) ==
    [i \in 1..Len(s) |-> IF s[i] \in DOMAIN LowerMap THEN LowerMap[s[i]] ELSE s[i]]

WhiteSpace == {" "}

\* String.prototype.trim
trim(s) ==
    LET keep == {i \in 1..Len(s) : s[i] \notin WhiteSpace}
    IN  IF keep = {} THEN << >>
        ELSE LET lo == CHOOSE i \in keep : \A j \in keep : i <= j
                 hi == CHOOSE i \in keep : \A j \in keep : i >= j
             IN  SubSeq(s, lo, hi)

\* String.prototype.includes
includes(s, t) ==
    \E i \in 0..(Len(s) - Len(t)) : SubSeq(s, i + 1, i + Len(t)) = t

---------------------------------------------------------------------------
(* Player names used as inputs and as page text *)

Horn == <<"H", "o", "r", "n">>
HornLower == <<"h", "o", "r", "n">>
THorn == <<"T", ".", " ", "H", "o", "r", "n">>
THornPadded == <<" ", "t", ".", " ", "H", "O", "R", "N", " ">>
Simons == <<"S", "i", "m", "o", "n", "s">>
Xavi == <<"X", "a", "v", "i">>
XaviUpper == <<"X", "A", "V", "I">>
Blank == <<" ", " ">>
Empty == << >>

\* names a caller may ask for
Names == {Horn, HornLower, THornPadded, Simons, Blank, Empty}

\* a name no page carries in full and the alias table does not know
JHorn == <<"J", ".", " ", "H", "o", "r", "n">>

\* the names asked for in a single lookup
LookupNames == Names \cup {JHorn}

---------------------------------------------------------------------------
(* NameMapper: playerNameDiffMapping.ts *)

\* an alias table in which the target of one alias is the source of another
PLAYER_NAME_MAPPING_Chained ==
    << [source |-> THorn, target |-> Simons],
       [source |-> Simons, target |-> Xavi] >>

\* PLAYER_NAME_MAPPING, in insertion order (Object.entries)
PLAYER_NAME_MAPPING ==
    << [source |-> THorn, target |-> Horn],
       [source |-> Simons, target |-> Xavi] >>

\* getMappedPlayerName that hands back the normalized spelling of an unmapped name
getMappedPlayerNameNormalized(playerName) ==
    LET lowercaseName == trim(toLowerCase(playerName))
        hits == {i \in 1..Len(PLAYER_NAME_MAPPING) :
                    toLowerCase(PLAYER_NAME_MAPPING[i].source) = lowercaseName}
    IN  IF hits # {}
        THEN PLAYER_NAME_MAPPING[CHOOSE i \in hits : \A j \in hits : i <= j].target
        ELSE lowercaseName

getMappedPlayerName(playerName) ==
    LET lowercaseName == trim(toLowerCase(playerName))
        hits == {i \in 1..Len(PLAYER_NAME_MAPPING) :
                    toLowerCase(PLAYER_NAME_MAPPING[i].source) = lowercaseName}
    IN  IF hits # {}
        THEN PLAYER_NAME_MAPPING[CHOOSE i \in hits : \A j \in hits : i <= j].target
        ELSE playerName

---------------------------------------------------------------------------
(* Values shared by the services *)

\* JavaScript's undefined (an omitted DomFilter) and null (no result)
undefined == [undefined |-> TRUE]
null == [null |-> TRUE]
\* PlayerAvailabilityInfo.reason when it is not set
NoReason == "undefined"

\* types.ts: the declared filters
STARTELF_FILTER == [type |-> "STARTELF", selector |-> ".sub_child"]
GESETZT_FILTER == [type |-> "GESETZT", selector |-> "div.player_name"]
\* Object.values(FILTER_MAP)
FILTER_MAP == <<GESETZT_FILTER, STARTELF_FILTER>>
\* the optional domFilter argument
DomFilters == {STARTELF_FILTER, GESETZT_FILTER, undefined}

\* team page URLs (teamMapping.ts); no URL contains the key separator '|'
Urls == {"bayern", "dortmund"}

\* PlayerStatusParser.createPlayerStatus
\* createPlayerStatus that drops the reason
createPlayerStatusBare(isAvailable, reason, timestamp) ==
    [isLikelyToPlay |-> isAvailable, reason |-> NoReason, lastChecked |-> timestamp]

createPlayerStatus(isAvailable, reason, timestamp) ==
    [isLikelyToPlay |-> isAvailable, reason |-> reason, lastChecked |-> timestamp]

---------------------------------------------------------------------------
(* CacheService *)

\* buildStatusCacheKey without the `?? 'none'` default
buildStatusCacheKeyNoDefault(url, playerName, domFilter) ==
    [url |-> url,
     name |-> toLowerCase(getMappedPlayerName(playerName)),
     filter |-> IF domFilter = undefined THEN "undefined" ELSE domFilter.type]

\* `${url}|${mappedName.toLowerCase()}|${domFilter?.type ?? 'none'}`: the three
\* components are kept apart in a record, which is what the string is for URLs
\* without '|' (the filter component is the text after the last separator).
buildStatusCacheKey(url, playerName, domFilter) ==
    LET mappedName == getMappedPlayerName(playerName)
    IN  [url |-> url,
         name |-> toLowerCase(mappedName),
         filter |-> IF domFilter = undefined THEN "none" ELSE domFilter.type]

\* getPlayerStatusFromCache that treats an expired entry as absent
getPlayerStatusFromCacheDropsExpired(cache, duration, t, url, playerName, domFilter, returnStale) ==
    LET cacheKey == buildStatusCacheKey(url, getMappedPlayerName(playerName), domFilter)
    IN  IF cacheKey \notin DOMAIN cache THEN null
        ELSE IF t - cache[cacheKey].timestamp >= duration THEN null
             ELSE cache[cacheKey].info

\* getPlayerStatusFromCache with `ageMs > duration` as the expiry test
getPlayerStatusFromCacheLateExpiry(cache, duration, t, url, playerName, domFilter, returnStale) ==
    LET cacheKey == buildStatusCacheKey(url, getMappedPlayerName(playerName), domFilter)
    IN  IF cacheKey \notin DOMAIN cache THEN null
        ELSE IF t - cache[cacheKey].timestamp > duration
             THEN (IF returnStale THEN cache[cacheKey].info ELSE null)
             ELSE cache[cacheKey].info

\* the value returned by getPlayerStatusFromCache at time t
getPlayerStatusFromCache(cache, duration, t, url, playerName, domFilter, returnStale) ==
    LET mappedName == getMappedPlayerName(playerName)
        cacheKey == buildStatusCacheKey(url, mappedName, domFilter)
    IN  IF cacheKey \notin DOMAIN cache THEN null
        ELSE LET cachedStatus == cache[cacheKey]
                 ageMs == t - cachedStatus.timestamp
                 isExpired == ageMs >= duration
             IN  IF isExpired
                 THEN (IF returnStale THEN cachedStatus.info ELSE null)
                 ELSE cachedStatus.info

\* cachePlayerStatus with a key that keeps the case of the name
cachePlayerStatusCaseSensitive(cache, url, playerName, status, filter, timestamp) ==
    IF playerName = Empty \/ trim(playerName) = Empty
    THEN cache
    ELSE LET cacheKey == [buildStatusCacheKey(url, playerName, filter)
                            EXCEPT !.name = getMappedPlayerName(playerName)]
         IN  (cacheKey :> [info |-> status, timestamp |-> timestamp]) @@ cache

\* cachePlayerStatus whose key carries the time of the write as well
cachePlayerStatusStamped(cache, url, playerName, status, filter, timestamp) ==
    IF playerName = Empty \/ trim(playerName) = Empty
    THEN cache
    ELSE LET cacheKey ==
                 [url |-> url,
                  name |-> toLowerCase(getMappedPlayerName(playerName)),
                  filter |-> IF filter = undefined THEN "none" ELSE filter.type,
                  version |-> timestamp]
         IN  (cacheKey :> [info |-> status, timestamp |-> timestamp]) @@ cache

\* cachePlayerStatus that keeps an entry already stored under the key
cachePlayerStatusKeepFirst(cache, url, playerName, status, filter, timestamp) ==
    IF playerName = Empty \/ trim(playerName) = Empty
    THEN cache
    ELSE LET cacheKey == buildStatusCacheKey(url, getMappedPlayerName(playerName), filter)
         IN  cache @@ (cacheKey :> [info |-> status, timestamp |-> timestamp])

\* the statusCache left by cachePlayerStatus
cachePlayerStatus(cache, url, playerName, status, filter, timestamp) ==
    IF playerName = Empty \/ trim(playerName) = Empty
    THEN cache
    ELSE LET mappedName == getMappedPlayerName(playerName)
             cacheKey == buildStatusCacheKey(url, mappedName, filter)
         IN  (cacheKey :> [info |-> status, timestamp |-> timestamp]) @@ cache

\* a string | null value that is a string
Html(content) == [html |-> content]

\* getHtmlFromCache that still serves an entry whose age equals the duration
getHtmlFromCacheLateExpiry(cache, duration, t, url) ==
    IF url \notin DOMAIN cache THEN null
    ELSE IF t - cache[url].timestamp <= duration THEN Html(cache[url].content) ELSE null

\* the value getHtmlFromCache returns at time t
getHtmlFromCache(cache, duration, t, url) ==
    IF url \notin DOMAIN cache THEN null
    ELSE LET cachedEntry == cache[url]
             ageMs == t - cachedEntry.timestamp
         IN  IF ageMs < duration THEN Html(cachedEntry.content) ELSE null

\* the htmlCache left by cacheHtml at time t
cacheHtml(cache, url, content, t) ==
    (url :> [content |-> content, timestamp |-> t]) @@ cache

---------------------------------------------------------------------------
(* Pages: the structure cheerio.load builds *)

\* an element on the path from a div.player_name up to the root: its tag, its
\* class, the text it holds outside the child on the path, its inline display
\* style and whether it has a '.player_no .next_sub' descendant
Element(tag, class, ownText, display, nextSub) ==
    [tag |-> tag, class |-> class, ownText |-> ownText, display |-> display,
     nextSub |-> nextSub]

Stadium == Element("div", "stadium_container_bg", Empty, "unset", FALSE)
Section(heading) == Element("section", "", heading, "unset", FALSE)
SubChild(display, nextSub) == Element("div", "sub_child", Empty, display, nextSub)

\* a div.player_name with its text and its ancestors, nearest first
RosterNode(text, ancestors) == [text |-> text, ancestors |-> ancestors]

\* the node itself followed by its ancestors
Chain(node) ==
    <<Element("div", "player_name", node.text, "unset", FALSE)>> \o node.ancestors

\* whether an element matches one of the selectors the code uses
MatchesSelector(el, selector) ==
    CASE selector = "div.stadium_container_bg" ->
            el.tag = "div" /\ el.class = "stadium_container_bg"
      [] selector = "div.player_name" -> el.tag = "div" /\ el.class = "player_name"
      [] selector = ".sub_child" -> el.class = "sub_child"
      [] selector = "section" -> el.tag = "section"

\* cheerio's closest(selector) from position `from` of the chain: the position
\* of the nearest matching ancestor-or-self, 0 when there is none (length 0)
closest(node, from, selector) ==
    LET hits == {i \in from..Len(Chain(node)) : MatchesSelector(Chain(node)[i], selector)}
    IN  IF hits = {} THEN 0 ELSE CHOOSE i \in hits : \A j \in hits : i <= j

\* cheerio's text() of the element at position i: its own text and the text of
\* the elements below it on the path
RECURSIVE text(_, _)
text(node, i) ==
    IF i = 0 THEN Empty ELSE Chain(node)[i].ownText \o text(node, i - 1)

\* the raw HTML of one node: markup, the text of its ancestors from the
\* outermost in, markup, its own text, markup
RECURSIVE AncestorText(_, _)
AncestorText(node, i) ==
    IF i < 2 THEN Empty ELSE Chain(node)[i].ownText \o AncestorText(node, i - 1)

NodeHtml(node) ==
    <<"<">> \o AncestorText(node, Len(Chain(node))) \o <<">">> \o node.text \o <<"<">>

\* the raw HTML string of a page; the page without any node is the empty string
RECURSIVE RawHtml(_)
RawHtml(html) ==
    IF html = << >> THEN Empty ELSE NodeHtml(Head(html)) \o RawHtml(Tail(html))

---------------------------------------------------------------------------
(* DomFilterService *)

\* a container check that lets every node through
isPlayerInStadiumContainerAlways(playerElement) == TRUE

isPlayerInStadiumContainer(playerElement) ==
    closest(playerElement, 1, "div.stadium_container_bg") > 0

\* DomFilter.condition of the two declared filters, on the element at position p
condition(filter, playerElement, p) ==
    CASE filter.type = "STARTELF" -> Chain(playerElement)[p].display = "block"
      [] filter.type = "GESETZT" ->
            LET parentSubChild == closest(playerElement, p, ".sub_child")
            IN  IF parentSubChild = 0 THEN TRUE
                ELSE ~Chain(playerElement)[parentSubChild].nextSub

\* a filter a caller built itself: its condition throws on the section it is given
FAILING_FILTER == [type |-> "STARTELF", selector |-> "section", condition |-> "throws"]

\* whether doesPlayerMatchFilter throws: the filter's condition is called, on the
\* nearest match of its selector, and throws
throws(playerElement, filter) ==
    /\ filter # undefined
    /\ "condition" \in DOMAIN filter
    /\ closest(playerElement, 1, filter.selector) > 0

\* doesPlayerMatchFilter that fails a node without the filter's structural context
doesPlayerMatchFilterStrict(playerElement, filter) ==
    IF filter = undefined THEN TRUE
    ELSE LET parentElement == closest(playerElement, 1, filter.selector)
         IN  IF parentElement = 0 THEN FALSE
             ELSE condition(filter, playerElement, parentElement)

doesPlayerMatchFilter(playerElement, filter) ==
    IF filter = undefined THEN TRUE
    ELSE LET parentElement == closest(playerElement, 1, filter.selector)
         IN  IF parentElement = 0 THEN TRUE
             ELSE condition(filter, playerElement, parentElement)

Verletzt == <<"V", "e", "r", "l", "e", "t", "z", "t">>
Angeschlagen == <<"A", "n", "g", "e", "s", "c", "h", "l", "a", "g", "e", "n">>
Gesperrt == <<"G", "e", "s", "p", "e", "r", "r", "t">>
fehlen == <<"f", "e", "h", "l", "e", "n">>

\* /Verletzt|Angeschlagen|Gesperrt|fehlen/i
MarkerTerms == {Verletzt, Angeschlagen, Gesperrt, fehlen}

\* the marker test without the i flag
MarkerTestCaseSensitive(str) ==
    \E term \in MarkerTerms : includes(str, term)

MarkerTest(str) ==
    \E term \in MarkerTerms : includes(toLowerCase(str), toLowerCase(term))

isPlayerInjuredOrSuspended(playerElement) ==
    LET parentSection == closest(playerElement, 1, "section")
    IN  parentSection > 0 /\ MarkerTest(text(playerElement, parentSection))

---------------------------------------------------------------------------
(* PlayerStatusParser *)

\* the searchNames array of parsePlayerStatus
searchNames(playerName) ==
    LET mappedName == getMappedPlayerName(playerName)
    IN  IF toLowerCase(mappedName) # toLowerCase(playerName)
        THEN <<toLowerCase(playerName), toLowerCase(mappedName)>>
        ELSE <<toLowerCase(playerName)>>

\* a quick check that never short-circuits
foundInHtmlAlways(html, playerName) == TRUE

\* the quick check on the raw text
foundInHtml(html, playerName) ==
    LET htmlLower == toLowerCase(RawHtml(html))
        names == searchNames(playerName)
    IN  \E k \in 1..Len(names) : includes(htmlLower, names[k])

\* $('div.player_name').filter(...): positions of the nodes kept, in document order
playerNameDivs(html, domFilter) ==
    {i \in 1..Len(html) :
        /\ isPlayerInStadiumContainer(html[i])
        /\ doesPlayerMatchFilter(html[i], domFilter)}

\* whether the each() callback takes the node for the requested player
nameMatches(playerDiv, playerName) ==
    LET divPlayerName == toLowerCase(trim(playerDiv.text))
        names == searchNames(playerName)
    IN  /\ divPlayerName # Empty
        /\ \E k \in 1..Len(names) :
              includes(divPlayerName, names[k]) \/ includes(names[k], divPlayerName)

\* the verdict for a located node
classify(playerDiv, t) ==
    IF isPlayerInjuredOrSuspended(playerDiv)
    THEN createPlayerStatus(FALSE, "Verletzung oder Sperre", t)
    ELSE createPlayerStatus(TRUE, NoReason, t)

\* `Error: ${errorMessage}`
ErrorReason == "Error: condition failed"

\* parsePlayerStatus without its catch block: the error reaches the caller
parsePlayerStatusUncaught(html, playerName, domFilter, t) ==
    IF ~foundInHtml(html, playerName)
    THEN [result |-> createPlayerStatus(FALSE, "Nicht im Kader", t), loaded |-> FALSE]
    ELSE IF \E i \in 1..Len(html) :
                isPlayerInStadiumContainer(html[i]) /\ throws(html[i], domFilter)
    THEN [result |-> [thrown |-> "condition failed"], loaded |-> TRUE]
    ELSE LET divs == playerNameDivs(html, domFilter)
             matching == {i \in divs : nameMatches(html[i], playerName)}
         IN  IF matching # {}
             THEN LET first == CHOOSE i \in matching : \A j \in matching : i <= j
                  IN  [result |-> classify(html[first], t), loaded |-> TRUE]
             ELSE [result |-> createPlayerStatus(FALSE, "Nicht im Kader", t),
                   loaded |-> TRUE]

\* parsePlayerStatus that lets the last matching node win
parsePlayerStatusLastMatch(html, playerName, domFilter, t) ==
    IF ~foundInHtml(html, playerName)
    THEN [result |-> createPlayerStatus(FALSE, "Nicht im Kader", t), loaded |-> FALSE]
    ELSE LET divs == playerNameDivs(html, domFilter)
             matching == {i \in divs : nameMatches(html[i], playerName)}
         IN  IF matching # {}
             THEN LET final == CHOOSE i \in matching : \A j \in matching : i >= j
                  IN  [result |-> classify(html[final], t), loaded |-> TRUE]
             ELSE [result |-> createPlayerStatus(FALSE, "Nicht im Kader", t),
                   loaded |-> TRUE]

\* parsePlayerStatus at time t: the value returned and whether cheerio.load ran
parsePlayerStatus(html, playerName, domFilter, t) ==
    IF ~foundInHtml(html, playerName)
    THEN [result |-> createPlayerStatus(FALSE, "Nicht im Kader", t), loaded |-> FALSE]
    ELSE IF \E i \in 1..Len(html) :
                isPlayerInStadiumContainer(html[i]) /\ throws(html[i], domFilter)
    THEN \* the catch block
         [result |-> createPlayerStatus(FALSE, ErrorReason, t), loaded |-> TRUE]
    ELSE LET divs == playerNameDivs(html, domFilter)
             matching == {i \in divs : nameMatches(html[i], playerName)}
         IN  IF matching # {}
             THEN LET first == CHOOSE i \in matching : \A j \in matching : i <= j
                  IN  [result |-> classify(html[first], t), loaded |-> TRUE]
             ELSE [result |-> createPlayerStatus(FALSE, "Nicht im Kader", t),
                   loaded |-> TRUE]

\* preparsePlayers from node i, filter j of allFiltersToCache on: the cache and
\* the count when the two nested loops end
RECURSIVE PreparseLoop(_, _, _, _, _, _, _, _)
PreparseLoop(cache, parsedCount, teamUrl, html, allFiltersToCache, t, i, j) ==
    IF i > Len(html) THEN [cache |-> cache, parsedCount |-> parsedCount]
    ELSE LET playerDiv == html[i]
             playerName == toLowerCase(trim(playerDiv.text))
         IN  IF \/ ~isPlayerInStadiumContainer(playerDiv)
                \/ playerName = Empty
                \/ j > Len(allFiltersToCache)
             THEN PreparseLoop(cache, parsedCount, teamUrl, html,
                               allFiltersToCache, t, i + 1, 1)
             ELSE LET currentFilter == allFiltersToCache[j]
                  IN  IF throws(playerDiv, currentFilter)
                      THEN \* the catch block: what was written stays, 0 is returned
                           [cache |-> cache, parsedCount |-> 0]
                      ELSE IF /\ currentFilter # undefined
                              /\ ~doesPlayerMatchFilter(playerDiv, currentFilter)
                      THEN PreparseLoop(cache, parsedCount, teamUrl, html,
                                        allFiltersToCache, t, i, j + 1)
                      ELSE PreparseLoop(
                              cachePlayerStatus(cache, teamUrl, playerName,
                                                classify(playerDiv, t), currentFilter, t),
                              parsedCount + 1, teamUrl, html, allFiltersToCache, t, i, j + 1)

\* preparsePlayers that adds the no-filter variant only to an empty filter list
preparsePlayersNoneWhenUnfiltered(cache, teamUrl, html, domFilters, t) ==
    IF RawHtml(html) = Empty
    THEN [cache |-> cache, parsedCount |-> 0]
    ELSE PreparseLoop(cache, 0, teamUrl, html,
                      IF domFilters = << >> THEN <<undefined>> ELSE domFilters, t, 1, 1)

\* preparsePlayers without the implicit no-filter variant
preparsePlayersGivenOnly(cache, teamUrl, html, domFilters, t) ==
    IF RawHtml(html) = Empty
    THEN [cache |-> cache, parsedCount |-> 0]
    ELSE PreparseLoop(cache, 0, teamUrl, html, domFilters, t, 1, 1)

\* preparsePlayers that caches every declared filter, whatever it was handed
preparsePlayersEveryFilter(cache, teamUrl, html, domFilters, t) ==
    IF RawHtml(html) = Empty
    THEN [cache |-> cache, parsedCount |-> 0]
    ELSE PreparseLoop(cache, 0, teamUrl, html, FILTER_MAP \o <<undefined>>, t, 1, 1)

\* preparsePlayers that returns how many entries the cache holds afterwards
preparsePlayersCountEntries(cache, teamUrl, html, domFilters, t) ==
    IF RawHtml(html) = Empty
    THEN [cache |-> cache, parsedCount |-> 0]
    ELSE LET r == PreparseLoop(cache, 0, teamUrl, html, domFilters \o <<undefined>>, t, 1, 1)
         IN  [cache |-> r.cache, parsedCount |-> Cardinality(DOMAIN r.cache)]

\* preparsePlayers at time t: the statusCache it leaves and the count it returns
preparsePlayers(cache, teamUrl, html, domFilters, t) ==
    IF RawHtml(html) = Empty
    THEN [cache |-> cache, parsedCount |-> 0]
    ELSE PreparseLoop(cache, 0, teamUrl, html, domFilters \o <<undefined>>, t, 1, 1)

---------------------------------------------------------------------------
(* Pages handed to the parser *)

Bank == <<"B", "a", "n", "k">>
GESPERRT == <<"G", "E", "S", "P", "E", "R", "R", "T">>
EsFehlen == <<"E", "s", " ", "f", "e", "h", "l", "e", "n">>

\* in the lineup, shown and without a substitute arrow, in no section
HornFit == RosterNode(Horn, <<SubChild("block", FALSE), Stadium>>)
\* the alias source spelling, hidden and with a substitute arrow, in a section
\* headed GESPERRT
THornBanned ==
    RosterNode(THorn, <<SubChild("none", TRUE), Section(GESPERRT), Stadium>>)
\* outside the stadium container, in a section headed GESPERRT
HornOutside == RosterNode(Horn, <<Section(GESPERRT)>>)
\* in a section headed Bank that lies within a section headed GESPERRT
XaviBench == RosterNode(XaviUpper, <<Section(Bank), Section(GESPERRT), Stadium>>)
\* shown, with a substitute arrow, in a section whose text holds 'fehlen'
XaviMissing ==
    RosterNode(XaviUpper, <<SubChild("block", TRUE), Section(EsFehlen), Stadium>>)
\* a node without a name
NoName == RosterNode(Blank, <<SubChild("block", FALSE), Stadium>>)
\* without a display style, without a substitute arrow, in a section headed Bank
HornUnstyled ==
    RosterNode(Horn, <<SubChild("unset", FALSE), Section(Bank), Stadium>>)
\* outside the stadium container, in no section
XaviOutside == RosterNode(Xavi, <<SubChild("block", FALSE)>>)

\* hidden in a .sub_child without a substitute arrow that lies in a shown
\* .sub_child with one
HornNested ==
    RosterNode(Horn, <<SubChild("none", FALSE), SubChild("block", TRUE), Stadium>>)

RosterNodes ==
    {HornFit, THornBanned, HornOutside, XaviBench, XaviMissing, NoName, HornUnstyled,
     XaviOutside}

\* every page of at most MaxNodes nodes
Pages == UNION {[1..n -> RosterNodes] : n \in 0..MaxNodes}

\* the pages a team URL serves over a run of the service
Snapshots == {html \in Pages : Len(html) < MaxNodes}

\* the domFilters argument of preparsePlayers; FILTER_MAP is the facade's default
FilterLists == {<< >>, <<STARTELF_FILTER>>, <<GESETZT_FILTER>>, FILTER_MAP}

---------------------------------------------------------------------------
(* The state after construction *)

Durations == 1..MaxDuration

\* new HtmlParser(logger, 60, 30) and the defaults (10, 5): the HTML cache
\* lives twice as long as the status cache
HtmlToStatusRatio == 2

EmptyMap == [k \in {} |-> null]

Init ==
    /\ now = 0
    /\ htmlCache = EmptyMap
    /\ statusCache = EmptyMap
    /\ statusCacheDurationMs \in Durations
    /\ htmlCacheDurationMs = HtmlToStatusRatio * statusCacheDurationMs
    /\ calls = 0
    /\ last = [op |-> "constructor"]
    /\ pending = [url \in Urls |-> 0]
    /\ inflight = EmptyMap

\* Calls that only read: they leave every cache as it is, so a run is followed
\* up to its first such call, whose arguments and return value `last` holds.
Observations ==
    {"getPlayerStatusFromCache", "fetchAndParsePlayerStatus", "parsePlayerStatus",
     "getHtmlFromCache", "getMappedPlayerName", "isSamePlayer",
     "doesPlayerMatchFilter", "HtmlParser.fetchAndParsePlayerStatus",
     "HtmlParser.parsePlayerStatus", "check-team-availability"}

\* no observation has ended the run yet
Idle == last.op \notin Observations

\* time passes between two calls
Tick ==
    /\ Idle
    /\ now < MaxTime
    /\ now' = now + 1
    /\ UNCHANGED <<inflight, pending, htmlCache, statusCache, htmlCacheDurationMs,
                   statusCacheDurationMs,
                   calls, last>>

---------------------------------------------------------------------------
(* CacheService called on its own *)

\* statuses a caller may hand to cachePlayerStatus
Statuses(t) ==
    { createPlayerStatus(TRUE, NoReason, t),
      createPlayerStatus(FALSE, "Verletzung oder Sperre", t) }

CachePlayerStatus(url, playerName, status, filter) ==
    /\ Idle
    /\ calls < MaxWrites
    /\ statusCache' = cachePlayerStatus(statusCache, url, playerName, status, filter, now)
    /\ calls' = calls + 1
    /\ last' = [op |-> "cachePlayerStatus", at |-> now, url |-> url,
                playerName |-> playerName, status |-> status, filter |-> filter]
    /\ UNCHANGED <<inflight, pending, now, htmlCache, htmlCacheDurationMs, statusCacheDurationMs>>

GetPlayerStatusFromCache(url, playerName, domFilter, returnStale) ==
    /\ Idle
    /\ last' = [op |-> "getPlayerStatusFromCache", url |-> url,
                playerName |-> playerName, domFilter |-> domFilter,
                returnStale |-> returnStale,
                result |-> getPlayerStatusFromCache(statusCache, statusCacheDurationMs,
                                now, url, playerName, domFilter, returnStale)]
    /\ UNCHANGED <<inflight, pending, now, htmlCache, statusCache, htmlCacheDurationMs,
                   statusCacheDurationMs, calls>>

CacheNext ==
    \/ Tick
    \/ /\ Idle /\ calls < MaxWrites
       /\ \E url \in Urls, playerName \in Names, filter \in DomFilters :
             \E status \in Statuses(now) :
                CachePlayerStatus(url, playerName, status, filter)
    \/ /\ Idle
       /\ \E url \in Urls, playerName \in Names, domFilter \in DomFilters :
             \E returnStale \in BOOLEAN :
                GetPlayerStatusFromCache(url, playerName, domFilter, returnStale)

CacheSpec == Init /\ [][CacheNext]_vars

---------------------------------------------------------------------------
(* The name functions called on their own *)

\* PLAYER_NAME_MAPPING[normalized] || normalized: the property whose key is
\* exactly the normalized name
normalizePlayerName(playerName) ==
    LET normalized == trim(toLowerCase(playerName))
        hits == {i \in 1..Len(PLAYER_NAME_MAPPING) :
                    PLAYER_NAME_MAPPING[i].source = normalized}
    IN  IF hits # {} /\ PLAYER_NAME_MAPPING[CHOOSE i \in hits : TRUE].target # Empty
        THEN PLAYER_NAME_MAPPING[CHOOSE i \in hits : TRUE].target
        ELSE normalized

isSamePlayer(name1, name2) ==
    LET normalized1 == normalizePlayerName(name1)
        normalized2 == normalizePlayerName(name2)
    IN  normalized1 = normalized2

\* the names handed to the name functions
AllNames == LookupNames \cup {THorn, Xavi, XaviUpper}

GetMappedPlayerName(playerName) ==
    /\ Idle
    /\ last' = [op |-> "getMappedPlayerName", playerName |-> playerName,
                result |-> getMappedPlayerName(playerName)]
    /\ UNCHANGED <<inflight, pending, now, htmlCache, statusCache, htmlCacheDurationMs,
                   statusCacheDurationMs, calls>>

IsSamePlayer(name1, name2) ==
    /\ Idle
    /\ last' = [op |-> "isSamePlayer", name1 |-> name1, name2 |-> name2,
                result |-> isSamePlayer(name1, name2)]
    /\ UNCHANGED <<inflight, pending, now, htmlCache, statusCache, htmlCacheDurationMs,
                   statusCacheDurationMs, calls>>

NameNext ==
    \/ Tick
    \/ \E playerName \in AllNames : GetMappedPlayerName(playerName)
    \/ \E name1 \in AllNames, name2 \in AllNames : IsSamePlayer(name1, name2)

NameSpec == Init /\ [][NameNext]_vars

---------------------------------------------------------------------------
(* HtmlService and the HTML cache *)

\* what httpClient.get comes back with: a body, which may be empty, or an error
Bodies == {<<HornFit>>, <<THornBanned>>}
Responses ==
    {[ok |-> TRUE, body |-> body] : body \in Bodies \cup {<< >>}}
       \cup {[ok |-> FALSE, body |-> << >>]}

\* JavaScript truthiness of a string | null value
truthy(value) == value # null /\ RawHtml(value.html) # Empty

\* the rest of fetchHtml that stores whatever came back
fetchHtmlResumeStoreAll(cache, url, response, t) ==
    IF response.ok
    THEN [cache |-> cacheHtml(cache, url, response.body, t), result |-> Html(response.body)]
    ELSE [cache |-> cache, result |-> null]

\* the rest of fetchHtml once httpClient.get has settled, at time t: the
\* htmlCache it leaves and the value it returns
fetchHtmlResume(cache, url, response, t) ==
    IF response.ok /\ truthy(Html(response.body))
    THEN [cache |-> cacheHtml(cache, url, response.body, t), result |-> Html(response.body)]
    ELSE [cache |-> cache, result |-> null]

\* CacheService.cacheHtml
CacheHtml(url, content) ==
    /\ Idle
    /\ calls < MaxFetches
    /\ htmlCache' = cacheHtml(htmlCache, url, content, now)
    /\ calls' = calls + 1
    /\ last' = [op |-> "cacheHtml", at |-> now, url |-> url, content |-> content]
    /\ UNCHANGED <<inflight, pending, now, statusCache, htmlCacheDurationMs, statusCacheDurationMs>>

\* CacheService.getHtmlFromCache
GetHtmlFromCache(url) ==
    /\ Idle
    /\ last' = [op |-> "getHtmlFromCache", at |-> now, url |-> url,
                result |-> getHtmlFromCache(htmlCache, htmlCacheDurationMs, now, url)]
    /\ UNCHANGED <<inflight, pending, now, htmlCache, statusCache, htmlCacheDurationMs,
                   statusCacheDurationMs, calls>>

\* fetchHtml that joins a request already in flight for the url
FetchHtmlShared(url) ==
    /\ Idle
    /\ calls < MaxFetches
    /\ calls' = calls + 1
    /\ LET cachedHtml == getHtmlFromCache(htmlCache, htmlCacheDurationMs, now, url)
       IN  IF truthy(cachedHtml)
           THEN /\ last' = [op |-> "fetchHtml", at |-> now, url |-> url,
                            result |-> cachedHtml, retrieved |-> FALSE]
                /\ pending' = pending
           ELSE /\ last' = [op |-> "httpClient.get", at |-> now, url |-> url]
                /\ pending' = [pending EXCEPT ![url] = IF @ > 0 THEN @ ELSE @ + 1]
    /\ UNCHANGED <<inflight, now, htmlCache, statusCache, htmlCacheDurationMs,
                   statusCacheDurationMs>>

\* HtmlService.fetchHtml up to its await: it returns what the cache serves, or
\* sends the request
FetchHtml(url) ==
    /\ Idle
    /\ calls < MaxFetches
    /\ calls' = calls + 1
    /\ LET cachedHtml == getHtmlFromCache(htmlCache, htmlCacheDurationMs, now, url)
       IN  IF truthy(cachedHtml)
           THEN /\ last' = [op |-> "fetchHtml", at |-> now, url |-> url,
                            result |-> cachedHtml, retrieved |-> FALSE]
                /\ pending' = pending
           ELSE /\ last' = [op |-> "httpClient.get", at |-> now, url |-> url]
                /\ pending' = [pending EXCEPT ![url] = @ + 1]
    /\ UNCHANGED <<inflight, now, htmlCache, statusCache, htmlCacheDurationMs,
                   statusCacheDurationMs>>

\* fetchHtml that sends the request again when the retrieval failed
FetchHtmlResumeRetrying(url, response) ==
    /\ Idle
    /\ pending[url] > 0
    /\ LET r == fetchHtmlResume(htmlCache, url, response, now)
       IN  IF r.result = null
           THEN /\ pending' = pending
                /\ htmlCache' = htmlCache
                /\ last' = [op |-> "httpClient.get", at |-> now, url |-> url]
           ELSE /\ pending' = [pending EXCEPT ![url] = @ - 1]
                /\ htmlCache' = r.cache
                /\ last' = [op |-> "fetchHtml", at |-> now, url |-> url,
                            result |-> r.result, retrieved |-> TRUE,
                            response |-> response]
    /\ UNCHANGED <<inflight, now, statusCache, htmlCacheDurationMs, statusCacheDurationMs,
                   calls>>

\* HtmlService.fetchHtml after its await
FetchHtmlResume(url, response) ==
    /\ Idle
    /\ pending[url] > 0
    /\ pending' = [pending EXCEPT ![url] = @ - 1]
    /\ LET r == fetchHtmlResume(htmlCache, url, response, now)
       IN  /\ htmlCache' = r.cache
           /\ last' = [op |-> "fetchHtml", at |-> now, url |-> url, result |-> r.result,
                       retrieved |-> TRUE, response |-> response]
    /\ UNCHANGED <<inflight, now, statusCache, htmlCacheDurationMs, statusCacheDurationMs,
                   calls>>

FetchNext ==
    \/ Tick
    \/ \E url \in Urls, content \in Bodies : CacheHtml(url, content)
    \/ \E url \in Urls : GetHtmlFromCache(url)
    \/ \E url \in Urls : FetchHtml(url)
    \/ \E url \in Urls, response \in Responses : FetchHtmlResume(url, response)

FetchSpec == Init /\ [][FetchNext]_vars

\* the calls of fetchHtml followed to their end: every request httpClient.get
\* has sent is settled at some time, with a body, an empty body or an error
FetchLiveNext ==
    \/ Tick
    \/ \E url \in Urls, content \in Bodies : CacheHtml(url, content)
    \/ \E url \in Urls : FetchHtml(url)
    \/ \E url \in Urls, response \in Responses : FetchHtmlResume(url, response)

FetchLiveSpec ==
    /\ Init
    /\ [][FetchLiveNext]_vars
    /\ \A url \in Urls :
          WF_vars(\E response \in Responses : FetchHtmlResume(url, response))

---------------------------------------------------------------------------
(* The facade HtmlParser and the services behind it *)

\* HtmlParser.parsePlayerStatus -> PlayerStatusParser.parsePlayerStatus
ParsePlayerStatus(html, playerName, domFilter) ==
    /\ Idle
    /\ LET r == parsePlayerStatus(html, playerName, domFilter, now)
       IN  last' = [op |-> "parsePlayerStatus", at |-> now, html |-> html,
                    playerName |-> playerName, domFilter |-> domFilter,
                    result |-> r.result, loaded |-> r.loaded]
    /\ UNCHANGED <<inflight, pending, now, htmlCache, statusCache, htmlCacheDurationMs,
                   statusCacheDurationMs, calls>>

\* HtmlParser.preparsePlayers -> PlayerStatusParser.preparsePlayers
PreparsePlayers(teamUrl, html, domFilters) ==
    /\ Idle
    /\ calls < MaxPasses
    /\ LET r == preparsePlayers(statusCache, teamUrl, html, domFilters, now)
       IN  /\ statusCache' = r.cache
           /\ last' = [op |-> "preparsePlayers", at |-> now, teamUrl |-> teamUrl,
                       html |-> html, domFilters |-> domFilters,
                       result |-> r.parsedCount,
                       \* observed: the keys whose verdict this pass turned round
                       turned |-> {k \in DOMAIN statusCache :
                                     r.cache[k].info.isLikelyToPlay
                                        # statusCache[k].info.isLikelyToPlay},
                       \* observed: when the call before this one was the same
                       \* pass, the time of that pass
                       repeats |-> IF /\ last.op = "preparsePlayers"
                                      /\ last.teamUrl = teamUrl
                                      /\ last.html = html
                                      /\ last.domFilters = domFilters
                                   THEN [at |-> last.at] ELSE null]
    /\ calls' = calls + 1
    /\ UNCHANGED <<inflight, pending, now, htmlCache, htmlCacheDurationMs, statusCacheDurationMs>>

\* the on-demand facade: a miss falls through to fetchHtml and parsePlayerStatus
fetchAndParsePlayerStatusOnDemand(cache, duration, t, teamUrl, playerName, domFilter) ==
    LET cachedStatus ==
            getPlayerStatusFromCache(cache, duration, t, teamUrl, playerName,
                                     domFilter, TRUE)
    IN  IF cachedStatus # null
        THEN [result |-> cachedStatus, fetched |-> FALSE, loaded |-> FALSE]
        ELSE [result |-> createPlayerStatus(FALSE, "Nicht im Kader", t),
              fetched |-> TRUE, loaded |-> TRUE]

\* HtmlParser.fetchAndParsePlayerStatus at time t: the value returned, and whether
\* the call went to the network (fetchHtml) or loaded a page (cheerio.load)
fetchAndParsePlayerStatus(cache, duration, t, teamUrl, playerName, domFilter) ==
    LET cachedStatus ==
            getPlayerStatusFromCache(cache, duration, t, teamUrl, playerName,
                                     domFilter, TRUE)
    IN  IF cachedStatus # null
        THEN [result |-> cachedStatus, fetched |-> FALSE, loaded |-> FALSE]
        ELSE [result |->
                 [isLikelyToPlay |-> FALSE,
                  reason |-> "Information not pre-cached or player not found for filter",
                  lastChecked |-> t],
              fetched |-> FALSE, loaded |-> FALSE]

\* HtmlParser.fetchAndParsePlayerStatus: it reads the status cache and nothing else
FetchAndParsePlayerStatus(teamUrl, playerName, domFilter) ==
    /\ Idle
    /\ LET r == fetchAndParsePlayerStatus(statusCache, statusCacheDurationMs, now,
                                          teamUrl, playerName, domFilter)
       IN  last' = [op |-> "fetchAndParsePlayerStatus", at |-> now, teamUrl |-> teamUrl,
                    playerName |-> playerName, domFilter |-> domFilter,
                    result |-> r.result, fetched |-> r.fetched, loaded |-> r.loaded]
    /\ UNCHANGED <<inflight, pending, now, htmlCache, statusCache, htmlCacheDurationMs,
                   statusCacheDurationMs, calls>>

Next ==
    \/ Tick
    \/ /\ Idle /\ calls < MaxPasses
       /\ \E teamUrl \in Urls, html \in Snapshots, domFilters \in FilterLists :
             PreparsePlayers(teamUrl, html, domFilters)
    \/ /\ Idle
       /\ \E teamUrl \in Urls, playerName \in Names, domFilter \in DomFilters :
             FetchAndParsePlayerStatus(teamUrl, playerName, domFilter)

Spec == Init /\ [][Next]_vars

---------------------------------------------------------------------------
(* One call on a freshly constructed parser, at any time, on any page *)

\* the nodes handed to DomFilterService on their own
FilterNodes == RosterNodes \cup {HornNested}

\* DomFilterService.doesPlayerMatchFilter
DoesPlayerMatchFilter(playerElement, filter) ==
    /\ Idle
    /\ last' = [op |-> "doesPlayerMatchFilter", playerElement |-> playerElement,
                filter |-> filter,
                result |-> doesPlayerMatchFilter(playerElement, filter)]
    /\ UNCHANGED <<inflight, pending, now, htmlCache, statusCache, htmlCacheDurationMs,
                   statusCacheDurationMs, calls>>

UnitNext ==
    \/ Tick
    \/ /\ Idle /\ calls = 0
       /\ \E html \in Pages, playerName \in LookupNames, domFilter \in DomFilters :
             ParsePlayerStatus(html, playerName, domFilter)
    \/ /\ Idle /\ calls = 0
       /\ \E teamUrl \in Urls, html \in Pages, domFilters \in FilterLists :
             PreparsePlayers(teamUrl, html, domFilters)
    \/ /\ Idle /\ calls = 0
       /\ \E playerElement \in FilterNodes, filter \in DomFilters :
             DoesPlayerMatchFilter(playerElement, filter)

UnitSpec == Init /\ [][UnitNext]_vars

---------------------------------------------------------------------------
(* Calls that meet a failure: a filter whose condition throws, a retrieval *)
(* that fails                                                              *)

\* domFilters arguments that hold the throwing filter
FailingFilterLists == {<<FAILING_FILTER>>, <<STARTELF_FILTER, FAILING_FILTER>>}

FaultNext ==
    \/ Tick
    \/ /\ Idle /\ calls = 0
       /\ \E html \in Pages, playerName \in LookupNames :
             ParsePlayerStatus(html, playerName, FAILING_FILTER)
    \/ /\ Idle /\ calls = 0
       /\ \E teamUrl \in Urls, html \in Pages, domFilters \in FailingFilterLists :
             PreparsePlayers(teamUrl, html, domFilters)
    \* fetchHtml neither reads nor writes statusCache: its failures are followed
    \* on the service that has cached no verdict
    \/ /\ statusCache = EmptyMap
       /\ \E url \in Urls : FetchHtml(url)
    \/ /\ statusCache = EmptyMap
       /\ \E url \in Urls, response \in Responses : FetchHtmlResume(url, response)
    \/ /\ Idle
       /\ \E teamUrl \in Urls, playerName \in Names, domFilter \in DomFilters :
             FetchAndParsePlayerStatus(teamUrl, playerName, domFilter)

FaultSpec == Init /\ [][FaultNext]_vars

---------------------------------------------------------------------------
(* services/HtmlParser.ts: the HtmlParser class that holds both caches      *)
(* itself. Its isPlayerInStadiumContainer, doesPlayerMatchFilter,           *)
(* isPlayerInjuredOrSuspended and createPlayerStatus are line for line the  *)
(* methods of the services above, which stand for them here.                *)

\* `${url}|${playerName.toLowerCase()}|${domFilter?.type ?? 'none'}`
HtmlParser_buildStatusCacheKey(url, playerName, domFilter) ==
    [url |-> url,
     name |-> toLowerCase(playerName),
     filter |-> IF domFilter = undefined THEN "none" ELSE domFilter.type]

\* HtmlParser.cachePlayerStatus: the statusCache it leaves
HtmlParser_cachePlayerStatus(cache, teamUrl, playerName, status, filter, timestamp) ==
    LET cacheKey == HtmlParser_buildStatusCacheKey(teamUrl, playerName, filter)
    IN  (cacheKey :> [info |-> status, timestamp |-> timestamp]) @@ cache

\* the two nested loops of HtmlParser.preparsePlayers from node i, filter j on
RECURSIVE HtmlParser_PreparseLoop(_, _, _, _, _, _, _, _)
HtmlParser_PreparseLoop(cache, parsedCount, teamUrl, html, allFiltersToCache, t, i, j) ==
    IF i > Len(html) THEN [cache |-> cache, parsedCount |-> parsedCount]
    ELSE LET playerDiv == html[i]
             playerName == toLowerCase(trim(playerDiv.text))
         IN  IF \/ ~isPlayerInStadiumContainer(playerDiv)
                \/ playerName = Empty
                \/ j > Len(allFiltersToCache)
             THEN HtmlParser_PreparseLoop(cache, parsedCount, teamUrl, html,
                                          allFiltersToCache, t, i + 1, 1)
             ELSE LET currentFilter == allFiltersToCache[j]
                  IN  IF throws(playerDiv, currentFilter)
                      THEN [cache |-> cache, parsedCount |-> 0]
                      ELSE IF /\ currentFilter # undefined
                              /\ ~doesPlayerMatchFilter(playerDiv, currentFilter)
                      THEN HtmlParser_PreparseLoop(cache, parsedCount, teamUrl, html,
                                                   allFiltersToCache, t, i, j + 1)
                      ELSE HtmlParser_PreparseLoop(
                              HtmlParser_cachePlayerStatus(
                                  cache, teamUrl, playerName, classify(playerDiv, t),
                                  currentFilter, t),
                              parsedCount + 1, teamUrl, html, allFiltersToCache, t, i, j + 1)

\* HtmlParser.preparsePlayers at time t: the statusCache it leaves and its count
HtmlParser_preparsePlayers(cache, teamUrl, html, domFilters, t) ==
    IF RawHtml(html) = Empty
    THEN [cache |-> cache, parsedCount |-> 0]
    ELSE HtmlParser_PreparseLoop(cache, 0, teamUrl, html, domFilters \o <<undefined>>,
                                 t, 1, 1)

\* HtmlParser.fetchAndParsePlayerStatus at time t: the status cache is its only source
HtmlParser_fetchAndParsePlayerStatus(cache, duration, t, teamUrl, playerName, domFilter) ==
    LET cacheKey == HtmlParser_buildStatusCacheKey(teamUrl, playerName, domFilter)
    IN  IF cacheKey \in DOMAIN cache
        THEN LET cachedStatus == cache[cacheKey]
                 ageMs == t - cachedStatus.timestamp
             IN  [result |-> cachedStatus.info, hit |-> TRUE,
                  expired |-> ageMs >= duration]
        ELSE [result |->
                 [isLikelyToPlay |-> FALSE,
                  reason |-> "Information not pre-cached or player not found for filter",
                  lastChecked |-> t],
              hit |-> FALSE, expired |-> FALSE]

\* HtmlParser.parsePlayerStatus at time t. Inside the each() callback
\* `const playerName = playerText.toLowerCase()` shadows the parameter, so the
\* only test a node has to pass is that its own text is not blank.
HtmlParser_parsePlayerStatus(html, playerName, domFilter, t) ==
    LET playerNameLower == toLowerCase(playerName)
    IN  IF ~includes(toLowerCase(RawHtml(html)), playerNameLower)
        THEN createPlayerStatus(FALSE, "Nicht im Kader", t)
        ELSE IF \E i \in 1..Len(html) :
                    isPlayerInStadiumContainer(html[i]) /\ throws(html[i], domFilter)
        THEN createPlayerStatus(FALSE, ErrorReason, t)
        ELSE LET divs == playerNameDivs(html, domFilter)
                 taken == {i \in divs : toLowerCase(trim(html[i].text)) # Empty}
             IN  IF taken # {}
                 THEN classify(html[CHOOSE i \in taken : \A j \in taken : i <= j], t)
                 ELSE createPlayerStatus(FALSE, "Nicht im Kader", t)

HtmlParser_ParsePlayerStatus(html, playerName, domFilter) ==
    /\ Idle
    /\ last' = [op |-> "HtmlParser.parsePlayerStatus", at |-> now, html |-> html,
                playerName |-> playerName, domFilter |-> domFilter,
                result |-> HtmlParser_parsePlayerStatus(html, playerName, domFilter, now)]
    /\ UNCHANGED <<inflight, pending, now, htmlCache, statusCache, htmlCacheDurationMs,
                   statusCacheDurationMs, calls>>

HtmlParser_PreparsePlayers(teamUrl, html, domFilters) ==
    /\ Idle
    /\ calls < MaxPasses
    /\ LET r == HtmlParser_preparsePlayers(statusCache, teamUrl, html, domFilters, now)
       IN  /\ statusCache' = r.cache
           /\ last' = [op |-> "HtmlParser.preparsePlayers", at |-> now,
                       teamUrl |-> teamUrl, html |-> html, domFilters |-> domFilters,
                       result |-> r.parsedCount]
    /\ calls' = calls + 1
    /\ UNCHANGED <<inflight, pending, now, htmlCache, htmlCacheDurationMs,
                   statusCacheDurationMs>>

HtmlParser_FetchAndParsePlayerStatus(teamUrl, playerName, domFilter) ==
    /\ Idle
    /\ LET r == HtmlParser_fetchAndParsePlayerStatus(
                    statusCache, statusCacheDurationMs, now, teamUrl, playerName, domFilter)
       IN  last' = [op |-> "HtmlParser.fetchAndParsePlayerStatus", at |-> now,
                    teamUrl |-> teamUrl, playerName |-> playerName,
                    domFilter |-> domFilter, result |-> r.result, hit |-> r.hit,
                    expired |-> r.expired]
    /\ UNCHANGED <<inflight, pending, now, htmlCache, statusCache, htmlCacheDurationMs,
                   statusCacheDurationMs, calls>>

HtmlParserNext ==
    \/ Tick
    \/ /\ Idle /\ calls < MaxPasses
       /\ \E teamUrl \in Urls, html \in Snapshots, domFilters \in FilterLists :
             HtmlParser_PreparsePlayers(teamUrl, html, domFilters)
    \/ /\ Idle
       /\ \E teamUrl \in Urls, playerName \in Names, domFilter \in DomFilters :
             HtmlParser_FetchAndParsePlayerStatus(teamUrl, playerName, domFilter)
    \/ /\ Idle /\ calls = 0
       /\ \E html \in Pages, playerName \in LookupNames, domFilter \in DomFilters :
             HtmlParser_ParsePlayerStatus(html, playerName, domFilter)

HtmlParserSpec == Init /\ [][HtmlParserNext]_vars

---------------------------------------------------------------------------
(* preparsePlayers row by row, on the event loop: a handler runs until it   *)
(* returns or reaches an await, and no other handler runs in between        *)

\* a loop body that yields to the event loop after every row
suspendsAfterEachRow(pass) == TRUE

\* whether the pass is suspended between two of its rows: the each() and
\* forEach() callbacks are synchronous and hold no await
suspends(pass) == FALSE

\* the two loops of preparsePlayers from node i, filter j on, up to and
\* including the next cachePlayerStatus call
RECURSIVE PreparseRow(_, _, _, _, _, _, _, _)
PreparseRow(cache, parsedCount, teamUrl, html, allFiltersToCache, t, i, j) ==
    IF i > Len(html)
    THEN [cache |-> cache, parsedCount |-> parsedCount, i |-> i, j |-> j, done |-> TRUE]
    ELSE LET playerDiv == html[i]
             playerName == toLowerCase(trim(playerDiv.text))
         IN  IF \/ ~isPlayerInStadiumContainer(playerDiv)
                \/ playerName = Empty
                \/ j > Len(allFiltersToCache)
             THEN PreparseRow(cache, parsedCount, teamUrl, html, allFiltersToCache,
                              t, i + 1, 1)
             ELSE LET currentFilter == allFiltersToCache[j]
                  IN  IF throws(playerDiv, currentFilter)
                      THEN [cache |-> cache, parsedCount |-> 0, i |-> i, j |-> j,
                            done |-> TRUE]
                      ELSE IF /\ currentFilter # undefined
                              /\ ~doesPlayerMatchFilter(playerDiv, currentFilter)
                      THEN PreparseRow(cache, parsedCount, teamUrl, html,
                                       allFiltersToCache, t, i, j + 1)
                      ELSE [cache |-> cachePlayerStatus(cache, teamUrl, playerName,
                                                        classify(playerDiv, t),
                                                        currentFilter, t),
                            parsedCount |-> parsedCount + 1, i |-> i, j |-> j + 1,
                            done |-> FALSE]

\* the passes that have begun and not returned
Passes == {id \in DOMAIN inflight : inflight[id].op = "preparsePlayers"}

\* no handler is in the middle of synchronous code
EventLoopFree == \A id \in Passes : suspends(inflight[id])

\* preparsePlayers up to its loops: `!html` returns 0, otherwise `now` is taken
PreparseBegin(teamUrl, html, domFilters) ==
    /\ Idle
    /\ EventLoopFree
    /\ calls < MaxPasses
    /\ calls' = calls + 1
    /\ IF RawHtml(html) = Empty
       THEN /\ last' = [op |-> "preparsePlayers", at |-> now, teamUrl |-> teamUrl,
                        html |-> html, domFilters |-> domFilters, result |-> 0,
                        before |-> statusCache]
            /\ inflight' = inflight
       ELSE /\ last' = [op |-> "preparsePlayers.begin", at |-> now, teamUrl |-> teamUrl]
            /\ inflight' =
                 inflight @@
                 ((calls + 1) :>
                    [op |-> "preparsePlayers", teamUrl |-> teamUrl, html |-> html,
                     domFilters |-> domFilters, at |-> now, i |-> 1, j |-> 1,
                     parsedCount |-> 0, before |-> statusCache])
    /\ UNCHANGED <<pending, now, htmlCache, statusCache, htmlCacheDurationMs,
                   statusCacheDurationMs>>

\* the pass `id` runs on to its next cache write, or to its return
PreparseContinue(id) ==
    /\ Idle
    /\ id \in Passes
    /\ LET pass == inflight[id]
           r == PreparseRow(statusCache, pass.parsedCount, pass.teamUrl, pass.html,
                            pass.domFilters \o <<undefined>>, pass.at, pass.i, pass.j)
       IN  /\ statusCache' = r.cache
           /\ IF r.done
              THEN /\ inflight' = [k \in DOMAIN inflight \ {id} |-> inflight[k]]
                   /\ last' = [op |-> "preparsePlayers", at |-> pass.at,
                               teamUrl |-> pass.teamUrl, html |-> pass.html,
                               domFilters |-> pass.domFilters,
                               result |-> r.parsedCount, before |-> pass.before]
              ELSE /\ inflight' = [inflight EXCEPT ![id] =
                                      [@ EXCEPT !.i = r.i, !.j = r.j,
                                                !.parsedCount = r.parsedCount]]
                   /\ last' = [op |-> "preparsePlayers.row", at |-> pass.at,
                               teamUrl |-> pass.teamUrl]
    /\ UNCHANGED <<pending, now, htmlCache, htmlCacheDurationMs, statusCacheDurationMs,
                   calls>>

PassNext ==
    \/ Tick
    \/ /\ Idle /\ calls < MaxPasses
       /\ \E teamUrl \in Urls, html \in Snapshots, domFilters \in FilterLists :
             PreparseBegin(teamUrl, html, domFilters)
    \/ \E id \in 1..MaxPasses : PreparseContinue(id)
    \/ /\ Idle /\ EventLoopFree
       /\ \E teamUrl \in Urls, playerName \in Names, domFilter \in DomFilters :
             FetchAndParsePlayerStatus(teamUrl, playerName, domFilter)

PassSpec == Init /\ [][PassNext]_vars

---------------------------------------------------------------------------
(* The on-demand HtmlParser (the earlier class that kept both caches and    *)
(* fell through to the network on a miss), with its refreshTeamCache. Its   *)
(* buildStatusCacheKey is the one of services/HtmlParser.ts.                *)

\* its declared filters and Object.values(FILTER_MAP)
ALTERNATIVES_FILTER == [type |-> "visibility", selector |-> ".sub_child"]
PFEIL_FILTER == [type |-> "Pfeil", selector |-> "div.player_name"]
OnDemand_FILTER_MAP == <<ALTERNATIVES_FILTER, PFEIL_FILTER>>
OnDemand_DomFilters == {ALTERNATIVES_FILTER, PFEIL_FILTER, undefined}

\* DomFilter.condition of the two filters, on the element at position p
OnDemand_condition(filter, playerElement, p) ==
    CASE filter.type = "visibility" -> Chain(playerElement)[p].display = "block"
      [] filter.type = "Pfeil" ->
            LET parentSubChild == closest(playerElement, p, ".sub_child")
            IN  IF parentSubChild = 0 THEN TRUE
                ELSE ~Chain(playerElement)[parentSubChild].nextSub

\* the callback of $('div.player_name').filter(...) in parsePlayerStatus
OnDemand_keeps(playerElement, domFilter) ==
    IF domFilter = undefined THEN TRUE
    ELSE LET parentElement == closest(playerElement, 1, domFilter.selector)
         IN  IF parentElement = 0 THEN TRUE
             ELSE OnDemand_condition(domFilter, playerElement, parentElement)

\* the verdict objects it builds: the available one has no reason property
OnDemand_classify(playerDiv, t) ==
    IF isPlayerInjuredOrSuspended(playerDiv)
    THEN [isLikelyToPlay |-> FALSE, reason |-> "Verletzung oder Sperre", lastChecked |-> t]
    ELSE [isLikelyToPlay |-> TRUE, reason |-> NoReason, lastChecked |-> t]

\* parsePlayerStatus of the on-demand class at time t
OnDemand_parsePlayerStatus(html, playerName, domFilter, t) ==
    LET playerNameLower == toLowerCase(playerName)
        notInSquad == [isLikelyToPlay |-> FALSE, reason |-> "Nicht im Kader",
                       lastChecked |-> t]
    IN  IF ~includes(toLowerCase(RawHtml(html)), playerNameLower)
        THEN notInSquad
        ELSE LET kept == {i \in 1..Len(html) : OnDemand_keeps(html[i], domFilter)}
                 matching == {i \in kept :
                                includes(toLowerCase(trim(html[i].text)), playerNameLower)}
             IN  IF matching # {}
                 THEN OnDemand_classify(
                          html[CHOOSE i \in matching : \A j \in matching : i <= j], t)
                 ELSE notInSquad

\* the two loops of its preparsePlayers from node i, filter j on
RECURSIVE OnDemand_PreparseLoop(_, _, _, _, _, _, _, _)
OnDemand_PreparseLoop(cache, parsedCount, teamUrl, html, domFilters, t, i, j) ==
    IF i > Len(html) THEN [cache |-> cache, parsedCount |-> parsedCount]
    ELSE LET playerName == toLowerCase(trim(html[i].text))
         IN  IF playerName = Empty \/ j > Len(domFilters)
             THEN OnDemand_PreparseLoop(cache, parsedCount, teamUrl, html, domFilters,
                                        t, i + 1, 1)
             ELSE LET domFilter == domFilters[j]
                      parentElement == closest(html[i], 1, domFilter.selector)
                  IN  IF /\ parentElement > 0
                         /\ ~OnDemand_condition(domFilter, html[i], parentElement)
                      THEN OnDemand_PreparseLoop(cache, parsedCount, teamUrl, html,
                                                 domFilters, t, i, j + 1)
                      ELSE LET cacheKey ==
                                   HtmlParser_buildStatusCacheKey(teamUrl, playerName,
                                                                  domFilter)
                           IN  OnDemand_PreparseLoop(
                                   (cacheKey :> [info |-> OnDemand_classify(html[i], t),
                                                 timestamp |-> t]) @@ cache,
                                   parsedCount + 1, teamUrl, html, domFilters, t, i, j + 1)

\* its preparsePlayers at time t: the statusCache it leaves and its count
OnDemand_preparsePlayers(cache, teamUrl, html, domFilters, t) ==
    IF RawHtml(html) = Empty
    THEN [cache |-> cache, parsedCount |-> 0]
    ELSE OnDemand_PreparseLoop(cache, 0, teamUrl, html, domFilters, t, 1, 1)

\* fetchHtml that never serves from htmlCache
OnDemand_fetchHtmlCachedNever(cache, duration, t, url) == null

\* fetchHtml up to `Fetching fresh HTML`: the cached content it returns at time t
OnDemand_fetchHtmlCached(cache, duration, t, url) ==
    IF url \notin DOMAIN cache THEN null
    ELSE LET cachedEntry == cache[url]
             ageMs == t - cachedEntry.timestamp
         IN  IF ageMs < duration THEN Html(cachedEntry.content) ELSE null

\* fetchHtml after its await: `started` is the `now` the call took when it began
OnDemand_fetchHtmlResume(cache, url, response, started) ==
    IF response.ok /\ RawHtml(response.body) # Empty
    THEN [cache |-> (url :> [content |-> response.body, timestamp |-> started]) @@ cache,
          result |-> Html(response.body)]
    ELSE [cache |-> cache, result |-> null]

\* fetchAndParsePlayerStatus that returns the parsed verdict without storing it
OnDemand_writeThroughSkipped(cache, cacheKey, playerStatus, started) == cache

\* `this.statusCache.set(cacheKey, {info: playerStatus, timestamp: now})`
OnDemand_writeThrough(cache, cacheKey, playerStatus, started) ==
    (cacheKey :> [info |-> playerStatus, timestamp |-> started]) @@ cache

\* the status-cache lookup of fetchAndParsePlayerStatus at time t
OnDemand_cachedStatus(cache, duration, t, cacheKey) ==
    IF cacheKey \notin DOMAIN cache THEN null
    ELSE IF t - cache[cacheKey].timestamp < duration THEN cache[cacheKey].info
         ELSE null

\* refreshTeamCache up to the await inside fetchHtml, and the whole of it when
\* htmlCache serves the page
RefreshTeamCache(teamUrl) ==
    /\ Idle
    /\ calls < MaxFetches
    /\ calls' = calls + 1
    /\ LET html == OnDemand_fetchHtmlCached(htmlCache, htmlCacheDurationMs, now, teamUrl)
       IN  IF html # null
           THEN LET r == OnDemand_preparsePlayers(statusCache, teamUrl, html.html,
                                                  OnDemand_FILTER_MAP, now)
                IN  /\ statusCache' = r.cache
                    /\ last' = [op |-> "refreshTeamCache", at |-> now, url |-> teamUrl,
                                result |-> r.parsedCount, retrieved |-> FALSE,
                                html |-> html]
                    /\ inflight' = inflight
           ELSE /\ statusCache' = statusCache
                /\ last' = [op |-> "httpClient.get", at |-> now, url |-> teamUrl]
                /\ inflight' = inflight @@
                      ((calls + 1) :> [op |-> "refreshTeamCache", url |-> teamUrl,
                                       started |-> now])
    /\ UNCHANGED <<pending, now, htmlCache, htmlCacheDurationMs, statusCacheDurationMs>>

\* fetchAndParsePlayerStatus of the on-demand class up to the await inside
\* fetchHtml, and the whole of it when a cache serves the call
OnDemand_FetchAndParsePlayerStatus(teamUrl, playerName, domFilter) ==
    /\ Idle
    /\ calls < MaxFetches
    /\ calls' = calls + 1
    /\ LET cacheKey == HtmlParser_buildStatusCacheKey(teamUrl, playerName, domFilter)
           cachedStatus == OnDemand_cachedStatus(statusCache, statusCacheDurationMs, now,
                                                 cacheKey)
           html == OnDemand_fetchHtmlCached(htmlCache, htmlCacheDurationMs, now, teamUrl)
       IN  IF cachedStatus # null
           THEN /\ statusCache' = statusCache
                /\ inflight' = inflight
                /\ last' = [op |-> "OnDemand.fetchAndParsePlayerStatus", at |-> now,
                            url |-> teamUrl, playerName |-> playerName,
                            domFilter |-> domFilter, result |-> cachedStatus,
                            retrieved |-> FALSE, parsed |-> FALSE]
           ELSE IF html # null
           THEN LET playerStatus ==
                        OnDemand_parsePlayerStatus(html.html, playerName, domFilter, now)
                IN  /\ statusCache' = OnDemand_writeThrough(statusCache, cacheKey,
                                                            playerStatus, now)
                    /\ inflight' = inflight
                    /\ last' = [op |-> "OnDemand.fetchAndParsePlayerStatus", at |-> now,
                                url |-> teamUrl, playerName |-> playerName,
                                domFilter |-> domFilter, result |-> playerStatus,
                                retrieved |-> FALSE, parsed |-> TRUE]
           ELSE /\ statusCache' = statusCache
                /\ last' = [op |-> "httpClient.get", at |-> now, url |-> teamUrl]
                /\ inflight' = inflight @@
                      ((calls + 1) :> [op |-> "OnDemand.fetchAndParsePlayerStatus",
                                       url |-> teamUrl, started |-> now,
                                       playerName |-> playerName,
                                       domFilter |-> domFilter])
    /\ UNCHANGED <<pending, now, htmlCache, htmlCacheDurationMs, statusCacheDurationMs>>

\* the call `id` after httpClient.get has settled: the rest of fetchHtml and
\* of the method that awaited it
OnDemand_Resume(id, response) ==
    /\ Idle
    /\ id \in DOMAIN inflight
    /\ inflight[id].op \in {"refreshTeamCache", "OnDemand.fetchAndParsePlayerStatus"}
    /\ LET call == inflight[id]
           f == OnDemand_fetchHtmlResume(htmlCache, call.url, response, call.started)
       IN  /\ htmlCache' = f.cache
           /\ inflight' = [k \in DOMAIN inflight \ {id} |-> inflight[k]]
           /\ IF call.op = "refreshTeamCache"
              THEN LET r == IF f.result = null
                            THEN [cache |-> statusCache, parsedCount |-> 0]
                            ELSE OnDemand_preparsePlayers(statusCache, call.url,
                                                          f.result.html,
                                                          OnDemand_FILTER_MAP, now)
                   IN  /\ statusCache' = r.cache
                       /\ last' = [op |-> "refreshTeamCache", at |-> now,
                                   url |-> call.url, result |-> r.parsedCount,
                                   retrieved |-> TRUE, html |-> f.result,
                                   started |-> call.started]
              ELSE LET cacheKey == HtmlParser_buildStatusCacheKey(
                                       call.url, call.playerName, call.domFilter)
                       playerStatus ==
                           IF f.result = null THEN null
                           ELSE OnDemand_parsePlayerStatus(f.result.html, call.playerName,
                                                           call.domFilter, now)
                   IN  /\ statusCache' =
                            IF playerStatus = null THEN statusCache
                            ELSE OnDemand_writeThrough(statusCache, cacheKey,
                                                       playerStatus, call.started)
                       /\ last' = [op |-> "OnDemand.fetchAndParsePlayerStatus",
                                   at |-> now, url |-> call.url,
                                   playerName |-> call.playerName,
                                   domFilter |-> call.domFilter, result |-> playerStatus,
                                   retrieved |-> TRUE, parsed |-> f.result # null,
                                   started |-> call.started]
    /\ UNCHANGED <<pending, now, htmlCacheDurationMs, statusCacheDurationMs, calls>>

\* names asked of the on-demand class
OnDemand_Names == {Horn, THorn, XaviUpper}

OnDemandNext ==
    \/ Tick
    \/ /\ Idle /\ calls < MaxFetches
       /\ \E teamUrl \in Urls : RefreshTeamCache(teamUrl)
    \/ /\ Idle /\ calls < MaxFetches
       /\ \E teamUrl \in Urls, playerName \in OnDemand_Names,
             domFilter \in OnDemand_DomFilters :
             OnDemand_FetchAndParsePlayerStatus(teamUrl, playerName, domFilter)
    \/ /\ Idle
       /\ \E id \in 1..MaxFetches, response \in Responses : OnDemand_Resume(id, response)

OnDemandSpec == Init /\ [][OnDemandNext]_vars

---------------------------------------------------------------------------
(* services/HtmlParser.ts: fetchHtml of the class that holds both caches,   *)
(* under concurrent calls                                                   *)

\* fetchHtml up to its await: the cached content while `ageMs < htmlCacheDurationMs`
HtmlParser_fetchHtmlCached(cache, duration, t, url) ==
    IF url \notin DOMAIN cache THEN null
    ELSE LET cachedEntry == cache[url]
             ageMs == t - cachedEntry.timestamp
         IN  IF ageMs < duration THEN Html(cachedEntry.content) ELSE null

\* fetchHtml after its await: `started` is the `now` the call took on entry,
\* `this.htmlCache.set(url, {content: htmlContent, timestamp: now})`
HtmlParser_fetchHtmlResume(cache, url, response, started) ==
    IF response.ok /\ RawHtml(response.body) # Empty
    THEN [cache |-> (url :> [content |-> response.body, timestamp |-> started]) @@ cache,
          result |-> Html(response.body)]
    ELSE [cache |-> cache, result |-> null]

\* a call of fetchHtml up to `await httpClient.get`, or the whole of it on a hit
HtmlParser_FetchHtml(url) ==
    /\ Idle
    /\ calls < MaxFetches
    /\ calls' = calls + 1
    /\ LET html == HtmlParser_fetchHtmlCached(htmlCache, htmlCacheDurationMs, now, url)
       IN  IF html # null
           THEN /\ last' = [op |-> "HtmlParser.fetchHtml", at |-> now, url |-> url,
                            result |-> html, retrieved |-> FALSE]
                /\ inflight' = inflight
           ELSE /\ last' = [op |-> "httpClient.get", at |-> now, url |-> url]
                /\ inflight' = inflight @@
                      ((calls + 1) :> [op |-> "HtmlParser.fetchHtml", url |-> url,
                                       started |-> now])
    /\ UNCHANGED <<pending, now, htmlCache, statusCache, htmlCacheDurationMs,
                   statusCacheDurationMs>>

\* the call `id` of fetchHtml after httpClient.get has settled
HtmlParser_FetchHtmlResume(id, response) ==
    /\ Idle
    /\ id \in DOMAIN inflight
    /\ inflight[id].op = "HtmlParser.fetchHtml"
    /\ LET call == inflight[id]
           f == HtmlParser_fetchHtmlResume(htmlCache, call.url, response, call.started)
       IN  /\ htmlCache' = f.cache
           /\ inflight' = [k \in DOMAIN inflight \ {id} |-> inflight[k]]
           /\ last' = [op |-> "HtmlParser.fetchHtml", at |-> now, url |-> call.url,
                       result |-> f.result, retrieved |-> TRUE,
                       started |-> call.started,
                       \* observed: the entry this call found in place on return
                       replaced |-> IF call.url \in DOMAIN htmlCache
                                    THEN [timestamp |-> htmlCache[call.url].timestamp]
                                    ELSE null]
    /\ UNCHANGED <<pending, now, statusCache, htmlCacheDurationMs,
                   statusCacheDurationMs, calls>>

\* concurrent callers of fetchHtml, each settled at any later time
HtmlParserFetchNext ==
    \/ Tick
    \/ /\ Idle /\ calls < MaxFetches
       /\ \E url \in Urls : HtmlParser_FetchHtml(url)
    \/ /\ Idle
       /\ \E id \in 1..MaxFetches, response \in Responses :
             HtmlParser_FetchHtmlResume(id, response)

HtmlParserFetchSpec == Init /\ [][HtmlParserFetchNext]_vars

---------------------------------------------------------------------------
(* server.ts: preloadCommonTeams on its timer, over the HTML service and    *)
(* the bulk parser. Time is counted in quarters of an hour.                 *)

\* new HtmlParser(logger, 60, 30): the status cache lives 30 minutes
StatusCacheQuarters == 2
\* setInterval(..., 30 * 60 * 1000)
PreloadQuarters == 2

\* teamMapping.getTeamUrl of the commonTeamIds, in the order of the list
commonTeamUrls == <<"bayern", "dortmund">>

\* the state when app.listen calls back: the parser as constructed at line 30
PreloadInit ==
    /\ now = 0
    /\ htmlCache = EmptyMap
    /\ statusCache = EmptyMap
    /\ statusCacheDurationMs = StatusCacheQuarters
    /\ htmlCacheDurationMs = HtmlToStatusRatio * StatusCacheQuarters
    /\ calls = 0
    /\ last = [op |-> "constructor"]
    /\ pending = [url \in Urls |-> 0]
    /\ inflight = EmptyMap

\* time passes; the timer fires when it is due, so no run is passed over
PreloadTick ==
    /\ now < MaxUptime
    /\ now < calls * PreloadQuarters
    /\ now' = now + 1
    /\ UNCHANGED <<inflight, pending, htmlCache, statusCache, htmlCacheDurationMs,
                   statusCacheDurationMs, calls, last>>

\* the teams of a run whose page fetchHtml serves from htmlCache
PreloadServed(cache, duration, t) ==
    {i \in 1..Len(commonTeamUrls) :
        truthy(getHtmlFromCache(cache, duration, t, commonTeamUrls[i]))}

\* statusCache after the callbacks of the teams from i on whose page htmlCache
\* serves: `if (html) { await globalHtmlParser.preparsePlayers(teamUrl, html) }`
RECURSIVE PreloadPasses(_, _, _, _, _)
PreloadPasses(cache, pages, duration, t, i) ==
    IF i > Len(commonTeamUrls) THEN cache
    ELSE LET teamUrl == commonTeamUrls[i]
             html == getHtmlFromCache(pages, duration, t, teamUrl)
         IN  IF truthy(html)
             THEN PreloadPasses(preparsePlayers(cache, teamUrl, html.html, FILTER_MAP, t).cache,
                                pages, duration, t, i + 1)
             ELSE PreloadPasses(cache, pages, duration, t, i + 1)

\* a run of preloadCommonTeams up to the point where every callback has
\* finished or waits for httpClient.get; `calls` counts the runs
PreloadCommonTeams ==
    /\ now = calls * PreloadQuarters
    /\ now <= MaxUptime
    /\ calls' = calls + 1
    /\ LET served == PreloadServed(htmlCache, htmlCacheDurationMs, now)
           waiting == (1..Len(commonTeamUrls)) \ served
       IN  /\ statusCache' = PreloadPasses(statusCache, htmlCache, htmlCacheDurationMs, now, 1)
           /\ inflight' = inflight @@
                 [id \in {<<calls, commonTeamUrls[i]>> : i \in waiting} |->
                     [op |-> "preloadCommonTeams", url |-> id[2], run |-> calls,
                      started |-> now]]
           /\ last' = [op |-> "preloadCommonTeams", at |-> now, run |-> calls,
                       \* observed: the passes this step made, each with the
                       \* page it read and the time that page was retrieved
                       passes |-> [url \in {commonTeamUrls[i] : i \in served} |->
                                     [html |-> htmlCache[url].content,
                                      retrievedAt |-> htmlCache[url].timestamp,
                                      retrieved |-> FALSE]],
                       failed |-> {}]
    /\ UNCHANGED <<pending, now, htmlCache, htmlCacheDurationMs, statusCacheDurationMs>>

\* a failing callback that takes the outstanding callbacks of its run with it
PreloadSettledAborting(calling, id, failed) ==
    IF failed
    THEN [k \in {j \in DOMAIN calling : calling[j].run # calling[id].run} |-> calling[k]]
    ELSE [k \in DOMAIN calling \ {id} |-> calling[k]]

\* the callbacks still outstanding once callback `id` has finished
PreloadSettled(calling, id, failed) ==
    [k \in DOMAIN calling \ {id} |-> calling[k]]

\* the callback `id` after httpClient.get has settled: the rest of fetchHtml,
\* then preparsePlayers or the error log. preparseThrows: the pass ends in its
\* catch block before its first write and returns 0.
PreloadResume(id, response, preparseThrows) ==
    /\ id \in DOMAIN inflight
    /\ inflight[id].op = "preloadCommonTeams"
    /\ LET call == inflight[id]
           f == fetchHtmlResume(htmlCache, call.url, response, now)
           parsed == truthy(f.result) /\ ~preparseThrows
           r == IF parsed
                THEN preparsePlayers(statusCache, call.url, f.result.html, FILTER_MAP, now)
                ELSE [cache |-> statusCache, parsedCount |-> 0]
       IN  /\ htmlCache' = f.cache
           /\ statusCache' = r.cache
           /\ inflight' = PreloadSettled(inflight, id, ~parsed)
           /\ last' = [op |-> "preloadCommonTeams", at |-> now, run |-> call.run,
                       passes |-> IF parsed
                                  THEN (call.url :> [html |-> f.result.html,
                                                     retrievedAt |-> now,
                                                     retrieved |-> TRUE])
                                  ELSE EmptyMap,
                       failed |-> IF parsed THEN {} ELSE {call.url}]
    /\ UNCHANGED <<pending, now, htmlCacheDurationMs, statusCacheDurationMs, calls>>

\* what httpClient.get comes back with for a team page: the page, an empty
\* body or an error
PreloadResponses == {response \in Responses : response.body \in {<<HornFit>>, << >>}}

\* the callbacks a server followed for MaxUptime can start
PreloadIds == (0..(MaxUptime \div PreloadQuarters)) \X Urls

PreloadNext ==
    \/ PreloadTick
    \/ PreloadCommonTeams
    \/ \E id \in PreloadIds, response \in PreloadResponses, preparseThrows \in BOOLEAN :
          PreloadResume(id, response, preparseThrows)

PreloadSpec == PreloadInit /\ [][PreloadNext]_vars

\* every request sent is answered or fails: httpClient.get settles
PreloadLiveSpec ==
    /\ PreloadSpec
    /\ \A id \in PreloadIds :
          WF_vars(\E response \in PreloadResponses, preparseThrows \in BOOLEAN :
                     PreloadResume(id, response, preparseThrows))

---------------------------------------------------------------------------
(* routes: POST /check-team-availability, over the parser server.ts builds  *)

\* a JSON string value; a property the request body lacks is undefined
Str(s) == [string |-> s]

\* teamMapping.teamUrls; the url names of the model stand for the links built
teamUrls == ("2" :> "bayern") @@ ("3" :> "dortmund")

\* teamMapping.getTeamUrl
getTeamUrl(teamId) == teamUrls[teamId]

\* `filterName ? FILTER_MAP[filterName] : undefined`
FilterByName(filterName) ==
    IF filterName = undefined THEN undefined
    ELSE CHOOSE filter \in {STARTELF_FILTER, GESETZT_FILTER} : filter.type = filterName.string

\* the callback of `players.map` for one player, at time t: what it leaves in
\* availabilityMap and unavailablePlayers. A firstName that is no string makes
\* `playerName.toLowerCase()` throw inside fetchAndParsePlayerStatus, which the
\* callback catches. absent: the parser returned null (the revision that
\* retrieves on demand does when its retrieval fails).
CheckPlayer(acc, player, filter, absent, cache, duration, t) ==
    IF player.firstName = undefined
    THEN [availabilityMap |->
              (player.id :> [isLikelyToPlay |-> FALSE,
                             reason |-> "Error: Cannot read properties of undefined",
                             lastChecked |-> t]) @@ acc.availabilityMap,
          unavailablePlayers |-> acc.unavailablePlayers]
    ELSE LET playerStatus ==
                 IF absent THEN null
                 ELSE HtmlParser_fetchAndParsePlayerStatus(
                          cache, duration, t, getTeamUrl(player.teamId),
                          player.firstName.string, filter).result
         IN  IF playerStatus = null
             THEN [availabilityMap |->
                       (player.id :> [isLikelyToPlay |-> FALSE,
                                      reason |-> "Could not parse player information",
                                      lastChecked |-> t]) @@ acc.availabilityMap,
                   unavailablePlayers |-> Append(acc.unavailablePlayers, player.firstName)]
             ELSE [availabilityMap |-> (player.id :> playerStatus) @@ acc.availabilityMap,
                   unavailablePlayers |->
                       IF \/ ~playerStatus.isLikelyToPlay
                          \/ playerStatus.reason = "Nicht im Kader"
                          \/ playerStatus.reason = "Nicht im Kader gefunden"
                       THEN Append(acc.unavailablePlayers, player.firstName)
                       ELSE acc.unavailablePlayers]

\* the callbacks of all players from i on; none of them suspends on the
\* network, so they finish in the order of the list
RECURSIVE CheckPlayers(_, _, _, _, _, _, _, _)
CheckPlayers(acc, players, filter, absent, cache, duration, t, i) ==
    IF i > Len(players) THEN acc
    ELSE CheckPlayers(CheckPlayer(acc, players[i], filter, i \in absent, cache, duration, t),
                      players, filter, absent, cache, duration, t, i + 1)

\* the handler of POST /check-team-availability and the response it sends
CheckTeamAvailability(players, filterName, absent) ==
    /\ Idle
    /\ LET filter == FilterByName(filterName)
           checked == CheckPlayers([availabilityMap |-> EmptyMap,
                                    unavailablePlayers |-> << >>],
                                   players, filter, absent, statusCache,
                                   statusCacheDurationMs, now, 1)
       IN  last' = IF Len(players) = 0
                   THEN [op |-> "check-team-availability", at |-> now,
                         players |-> players, filterName |-> filterName,
                         status |-> 400]
                   ELSE [op |-> "check-team-availability", at |-> now,
                         players |-> players, filterName |-> filterName,
                         status |-> 200,
                         availabilityMap |-> checked.availabilityMap,
                         unavailablePlayers |-> checked.unavailablePlayers]
    /\ UNCHANGED <<inflight, pending, now, htmlCache, statusCache, htmlCacheDurationMs,
                   statusCacheDurationMs, calls>>

\* the players of a request body: ids are unique, firstName may be missing
RequestPlayers(id) ==
    {[id |-> id, firstName |-> firstName, teamId |-> teamId] :
        firstName \in {Str(Horn), Str(Simons), undefined}, teamId \in DOMAIN teamUrls}

Requests ==
    {<< >>} \cup {<<p>> : p \in RequestPlayers("1")}
       \cup {<<p, q>> : p \in RequestPlayers("1"), q \in RequestPlayers("2")}

FilterNames == {undefined, Str("STARTELF"), Str("GESETZT")}

\* the server after its preload passes, answering one request
RouteNext ==
    \/ Tick
    \/ /\ Idle /\ calls < MaxPasses
       /\ \E teamUrl \in Urls, html \in Bodies :
             HtmlParser_PreparsePlayers(teamUrl, html, FILTER_MAP)
    \/ /\ Idle
       /\ \E players \in Requests, filterName \in FilterNames :
             \E absent \in SUBSET (1..Len(players)) :
                 CheckTeamAvailability(players, filterName, absent)

RouteSpec == Init /\ [][RouteNext]_vars

---------------------------------------------------------------------------
(* Claims *)

\* the canonical name of a, compared ignoring case
Canonical(a) == toLowerCase(getMappedPlayerName(a))

\* the filter component of a key: the type of the filter, 'none' without one
FilterTag(domFilter) == IF domFilter = undefined THEN "none" ELSE domFilter.type

\* the VerdictCache slot of (url, name, filter)
Slot(url, playerName, domFilter) ==
    [url |-> url, name |-> Canonical(playerName), filter |-> FilterTag(domFilter)]

\* C1 as stated: after cachePlayerStatus(url, a, v, f), a lookup under every
\* name b whose canonical name equals that of a ignoring case returns v,
\* whatever the name a is.
C1_AnyNameSharesEntry ==
    last.op = "cachePlayerStatus" =>
        \A b \in Names :
            Canonical(b) = Canonical(last.playerName) =>
                getPlayerStatusFromCache(statusCache, statusCacheDurationMs, now,
                                         last.url, b, last.filter, TRUE) = last.status

\* C1 amended: after cachePlayerStatus(url, a, v, f) with a name a that is not
\* blank, a lookup under every name b whose canonical name equals that of a
\* ignoring case (same url, same filter) returns v.
C1_NonBlankNameSharesEntry ==
    (last.op = "cachePlayerStatus" /\ trim(last.playerName) # Empty) =>
        \A b \in Names :
            Canonical(b) = Canonical(last.playerName) =>
                getPlayerStatusFromCache(statusCache, statusCacheDurationMs, now,
                                         last.url, b, last.filter, TRUE) = last.status

\* a status cached under the padded alias spelling is the entry a later lookup
\* under the lowercase target spelling finds
C1_Witness ==
    /\ last.op = "cachePlayerStatus"
    /\ last.playerName = THornPadded
    /\ now > last.at
    /\ Slot(last.url, HornLower, last.filter) \in DOMAIN statusCache
    /\ statusCache[Slot(last.url, HornLower, last.filter)].info = last.status

\* C2: getPlayerStatusFromCache returns null for a missing entry; for a present
\* entry it returns the verdict when age < statusCacheDuration, and when
\* age >= statusCacheDuration the verdict if returnStale and null if not.
C2_ReadPolicy ==
    last.op = "getPlayerStatusFromCache" =>
        LET k == Slot(last.url, last.playerName, last.domFilter)
        IN  IF k \notin DOMAIN statusCache
            THEN last.result = null
            ELSE LET age == now - statusCache[k].timestamp
                 IN  /\ age < statusCacheDurationMs => last.result = statusCache[k].info
                     /\ (age >= statusCacheDurationMs /\ last.returnStale) =>
                            last.result = statusCache[k].info
                     /\ (age >= statusCacheDurationMs /\ ~last.returnStale) =>
                            last.result = null

\* an entry whose age is exactly the duration, read without returnStale
C2_Witness ==
    /\ last.op = "getPlayerStatusFromCache"
    /\ ~last.returnStale
    /\ Slot(last.url, last.playerName, last.domFilter) \in DOMAIN statusCache
    /\ now - statusCache[Slot(last.url, last.playerName, last.domFilter)].timestamp
          = statusCacheDurationMs
    /\ last.result = null

\* whether a node has a div.stadium_container_bg among its ancestors
InContainer(node) ==
    \E i \in 1..Len(node.ancestors) :
        node.ancestors[i].tag = "div" /\ node.ancestors[i].class = "stadium_container_bg"

\* the nodes of a page that preparsePlayers caches under filter f: inside the
\* container, with a name, passing f
Cached(html, f) ==
    {i \in 1..Len(html) :
        /\ InContainer(html[i])
        /\ trim(html[i].text) # Empty
        /\ doesPlayerMatchFilter(html[i], f)}

\* the filter variants of one pass: the ones handed over and the implicit none
Variants(domFilters) == {domFilters[j] : j \in 1..Len(domFilters)} \cup {undefined}

NotPreCached == "Information not pre-cached or player not found for filter"

C4_OneEntryPerNode ==
    (last.op = "preparsePlayers" /\ last.domFilters = << >>) =>
        /\ Cardinality(DOMAIN statusCache)
              = Cardinality({i \in 1..Len(last.html) : InContainer(last.html[i])})
        /\ \A k \in DOMAIN statusCache :
              /\ k.filter = "none"
              /\ statusCache[k].timestamp = last.at
              /\ statusCache[k].info.lastChecked = last.at

\* C4 amended: preparsePlayers(url, html, []) on an empty statusCache leaves
\* exactly one entry per distinct canonical lowercase name among the roster
\* nodes inside the stadium container whose text is not blank, each under
\* 'none', all with the timestamp of the call, which is the verdict's lastChecked.
C4_OneEntryPerName ==
    (last.op = "preparsePlayers" /\ last.domFilters = << >>) =>
        /\ DOMAIN statusCache =
              {Slot(last.teamUrl, trim(last.html[i].text), undefined) :
                  i \in {j \in 1..Len(last.html) :
                            InContainer(last.html[j]) /\ trim(last.html[j].text) # Empty}}
        /\ \A k \in DOMAIN statusCache :
              /\ statusCache[k].timestamp = last.at
              /\ statusCache[k].info.lastChecked = last.at

\* a pass without filters, some time after construction, that left two entries
C4_Witness ==
    /\ last.op = "preparsePlayers"
    /\ last.domFilters = << >>
    /\ last.at > 0
    /\ Cardinality(DOMAIN statusCache) = 2

\* C5: after a preparsePlayers pass, every key the pass wrote holds the verdict
\* and the timestamp of that pass (of the last node of its page that maps to the
\* key), whatever an earlier pass for the same URL had stored under it.
C5_LaterPassOverwrites ==
    last.op = "preparsePlayers" =>
        \A f \in Variants(last.domFilters) :
            \A i \in Cached(last.html, f) :
                LET k == Slot(last.teamUrl, trim(last.html[i].text), f)
                    same == {j \in Cached(last.html, f) :
                                Slot(last.teamUrl, trim(last.html[j].text), f) = k}
                    final == CHOOSE j \in same : \A m \in same : m <= j
                IN  /\ k \in DOMAIN statusCache
                    /\ statusCache[k].timestamp = last.at
                    /\ statusCache[k].info = classify(last.html[final], last.at)

\* a second pass that turned an earlier pass's verdict round
C5_Witness ==
    /\ last.op = "preparsePlayers"
    /\ calls = 2
    /\ \E k \in last.turned :
          /\ k.url = last.teamUrl
          /\ statusCache[k].timestamp = last.at

\* C6: a preparsePlayers(url, html, filters) pass creates or overwrites only
\* keys of that url whose filter component is the type of one of filters or
\* 'none'; every other key keeps its entry, and no key is removed.
C6_PassWritesOnlyItsVariants ==
    [][(last'.op = "preparsePlayers" /\ calls' = calls + 1) =>
          /\ DOMAIN statusCache \subseteq DOMAIN statusCache'
          /\ \A k \in DOMAIN statusCache' :
                \/ /\ k.url = last'.teamUrl
                   /\ k.filter \in {FilterTag(f) : f \in Variants(last'.domFilters)}
                \/ /\ k \in DOMAIN statusCache
                   /\ statusCache'[k] = statusCache[k]]_vars

\* a pass for STARTELF alone, after which an older GESETZT entry of the same
\* url and an entry of the other url are still there
C6_Witness ==
    /\ last.op = "preparsePlayers"
    /\ last.domFilters = <<STARTELF_FILTER>>
    /\ \E k \in DOMAIN statusCache :
          k.url = last.teamUrl /\ k.filter = "STARTELF" /\ statusCache[k].timestamp = last.at
    /\ \E k \in DOMAIN statusCache :
          k.url = last.teamUrl /\ k.filter = "GESETZT" /\ statusCache[k].timestamp < last.at

\* C7: the filter component of every statusCache key is 'STARTELF', 'GESETZT'
\* or 'none'.
C7_KeyFilterDeclared ==
    \A k \in DOMAIN statusCache : k.filter \in {"STARTELF", "GESETZT", "none"}

\* keys of all three filter components are cached
C7_Witness ==
    \A tag \in {"STARTELF", "GESETZT", "none"} :
        \E k \in DOMAIN statusCache : k.filter = tag

\* the nodes of a page that lie inside the stadium container, in document order
Inside(html) == SelectSeq(html, InContainer)

\* C8: a roster node without a div.stadium_container_bg ancestor never
\* contributes: parsePlayerStatus returns an available or injured verdict only
\* for a node inside the container, preparsePlayers writes no entry for a node
\* outside it, and both give what they give on the page without such nodes.
C8_OutsideContainerIgnored ==
    /\ last.op = "parsePlayerStatus" =>
          /\ last.result.reason # "Nicht im Kader" =>
                \E i \in 1..Len(last.html) :
                    /\ InContainer(last.html[i])
                    /\ nameMatches(last.html[i], last.playerName)
                    /\ last.result = classify(last.html[i], last.at)
          /\ last.result
                = parsePlayerStatus(Inside(last.html), last.playerName,
                                    last.domFilter, last.at).result
    /\ last.op = "preparsePlayers" =>
          /\ \A k \in DOMAIN statusCache :
                \E i \in 1..Len(last.html) :
                    /\ InContainer(last.html[i])
                    /\ k.name = Slot(last.teamUrl, trim(last.html[i].text), undefined).name
          /\ statusCache
                = preparsePlayers(EmptyMap, last.teamUrl, Inside(last.html),
                                  last.domFilters, last.at).cache

\* the requested name stands on the page, but only outside the container, and
\* the structural parse ran and did not take it
C8_Witness ==
    /\ last.op = "parsePlayerStatus"
    /\ last.loaded
    /\ last.result.reason = "Nicht im Kader"
    /\ \E i \in 1..Len(last.html) :
          ~InContainer(last.html[i]) /\ nameMatches(last.html[i], last.playerName)

\* /Verletzt|Angeschlagen|Gesperrt|fehlen/i on a text
ContainsMarker(str) ==
    \E term \in {Verletzt, Angeschlagen, Gesperrt, fehlen} :
        includes(toLowerCase(str), toLowerCase(term))

\* the positions of a node's section ancestors in its chain
SectionsAbove(node) ==
    {i \in 2..Len(Chain(node)) : Chain(node)[i].tag = "section"}

\* some section ancestor of the node has a marker term in its text
MarkedBySomeSection(node) ==
    \E i \in SectionsAbove(node) : ContainsMarker(text(node, i))

\* the nearest section ancestor of the node has a marker term in its text
MarkedByNearestSection(node) ==
    \E i \in SectionsAbove(node) :
        /\ \A j \in SectionsAbove(node) : i <= j
        /\ ContainsMarker(text(node, i))

\* the node parsePlayerStatus classifies: the first one inside the container
\* that passes the filter and carries the requested name
Located(html, playerName, domFilter) ==
    {i \in Cached(html, domFilter) :
        /\ nameMatches(html[i], playerName)
        /\ \A j \in Cached(html, domFilter) :
              nameMatches(html[j], playerName) => i <= j}

\* C9 as stated: the verdict for a roster node is unavailable with reason
\* 'Verletzung oder Sperre' iff the node has a section ancestor whose text
\* contains one of the marker terms case-insensitively, and available with no
\* reason otherwise.
C9_AnySectionMarks ==
    (last.op = "parsePlayerStatus" /\ last.loaded) =>
        \A i \in Located(last.html, last.playerName, last.domFilter) :
            last.result =
               IF MarkedBySomeSection(last.html[i])
               THEN createPlayerStatus(FALSE, "Verletzung oder Sperre", last.at)
               ELSE createPlayerStatus(TRUE, NoReason, last.at)

\* C9 amended: the verdict for a roster node is unavailable with reason
\* 'Verletzung oder Sperre' iff the node has a section ancestor and the text of
\* the nearest one contains one of the marker terms case-insensitively, and
\* available with no reason otherwise.
C9_NearestSectionMarks ==
    (last.op = "parsePlayerStatus" /\ last.loaded) =>
        \A i \in Located(last.html, last.playerName, last.domFilter) :
            last.result =
               IF MarkedByNearestSection(last.html[i])
               THEN createPlayerStatus(FALSE, "Verletzung oder Sperre", last.at)
               ELSE createPlayerStatus(TRUE, NoReason, last.at)

\* a node in a section headed in capitals was classified unavailable
C9_Witness ==
    /\ last.op = "parsePlayerStatus"
    /\ last.result.reason = "Verletzung oder Sperre"
    /\ \E i \in Located(last.html, last.playerName, last.domFilter) :
          /\ MarkedByNearestSection(last.html[i])
          /\ \A j \in SectionsAbove(last.html[i]) :
                ~MarkerTestCaseSensitive(text(last.html[i], j))

\* whether a name occurs in the raw page text, whatever the case
Occurs(html, name) == includes(toLowerCase(RawHtml(html)), toLowerCase(name))

\* C10: when neither the requested name nor its mapped name occurs in the raw
\* page text, case-insensitively, parsePlayerStatus returns 'Nicht im Kader'
\* unavailable and does not load or search the page.
C10_QuickCheckShortCircuits ==
    ( /\ last.op = "parsePlayerStatus"
      /\ ~Occurs(last.html, last.playerName)
      /\ ~Occurs(last.html, getMappedPlayerName(last.playerName)) ) =>
        /\ last.result.isLikelyToPlay = FALSE
        /\ last.result.reason = "Nicht im Kader"
        /\ ~last.loaded

\* an alias was asked for on a page of other players, and the page was not loaded
C10_Witness ==
    /\ last.op = "parsePlayerStatus"
    /\ last.playerName = Simons
    /\ Len(last.html) = MaxNodes
    /\ ~last.loaded
    /\ last.result.reason = "Nicht im Kader"

\* the node's trimmed lowercase text contains, or is contained in, the raw or
\* the mapped search name
Carries(node, playerName) ==
    LET divText == toLowerCase(trim(node.text))
    IN  \E name \in {toLowerCase(playerName), toLowerCase(getMappedPlayerName(playerName))} :
            includes(divText, name) \/ includes(name, divText)

\* the nodes inside the container that pass the filter and carry the name
Candidates(html, playerName, domFilter) ==
    {i \in 1..Len(html) :
        /\ InContainer(html[i])
        /\ doesPlayerMatchFilter(html[i], domFilter)
        /\ Carries(html[i], playerName)}

\* the verdict of the classification rule for a node
Verdict(node, t) ==
    IF MarkedByNearestSection(node)
    THEN createPlayerStatus(FALSE, "Verletzung oder Sperre", t)
    ELSE createPlayerStatus(TRUE, NoReason, t)

\* the verdict for the first of a set of nodes, not-in-squad for the empty set
FirstVerdict(html, nodes, t) ==
    IF nodes = {} THEN createPlayerStatus(FALSE, "Nicht im Kader", t)
    ELSE Verdict(html[CHOOSE i \in nodes : \A j \in nodes : i <= j], t)

\* C11 as stated: parsePlayerStatus returns the classification of the first node
\* in document order among the in-container, filter-passing nodes whose trimmed
\* lowercase text contains or is contained in the raw or canonical name, and
\* 'Nicht im Kader' when there is none.
C11_FirstCandidateWins ==
    last.op = "parsePlayerStatus" =>
        last.result
           = FirstVerdict(last.html,
                          Candidates(last.html, last.playerName, last.domFilter), last.at)

\* C11 amended: when the raw or the canonical name occurs in the raw page text,
\* parsePlayerStatus returns the classification of the first node in document
\* order among the in-container, filter-passing nodes with non-blank text whose
\* trimmed lowercase text contains or is contained in the raw or canonical name,
\* and 'Nicht im Kader' when there is none; when neither name occurs in the raw
\* text it returns 'Nicht im Kader' whatever the nodes carry.
C11_FirstNamedCandidateWins ==
    last.op = "parsePlayerStatus" =>
        last.result
           = IF \/ Occurs(last.html, last.playerName)
                \/ Occurs(last.html, getMappedPlayerName(last.playerName))
             THEN FirstVerdict(last.html,
                     {i \in Candidates(last.html, last.playerName, last.domFilter) :
                         trim(last.html[i].text) # Empty},
                     last.at)
             ELSE createPlayerStatus(FALSE, "Nicht im Kader", last.at)

\* two nodes carry the name, the first is fit, the second is not, and the
\* verdict is the first one's
C11_Witness ==
    /\ last.op = "parsePlayerStatus"
    /\ last.result.isLikelyToPlay
    /\ \E i, j \in Candidates(last.html, last.playerName, last.domFilter) :
          /\ i < j
          /\ trim(last.html[i].text) # Empty
          /\ ~MarkedByNearestSection(last.html[i])
          /\ MarkedByNearestSection(last.html[j])

\* C12: getHtmlFromCache(url) returns the stored content iff an entry exists
\* and now - timestamp < htmlCacheDurationMs, and null otherwise (age equal to
\* the duration included); the read leaves the map as it is, and an entry, expired
\* or not, stays until a cacheHtml for its url, made now, replaces it.
C12_PageCacheRead ==
    [][ /\ last'.op = "getHtmlFromCache" =>
             /\ htmlCache' = htmlCache
             /\ last'.result =
                   IF /\ last'.url \in DOMAIN htmlCache
                      /\ now - htmlCache[last'.url].timestamp < htmlCacheDurationMs
                   THEN Html(htmlCache[last'.url].content)
                   ELSE null
        /\ \A url \in DOMAIN htmlCache :
              /\ url \in DOMAIN htmlCache'
              /\ htmlCache'[url] # htmlCache[url] =>
                    /\ last'.op \in {"cacheHtml", "fetchHtml"}
                    /\ last'.url = url
                    /\ htmlCache'[url].timestamp = now ]_vars

\* a read at the very moment the entry's age reaches the duration found nothing
C12_Witness ==
    /\ last.op = "getHtmlFromCache"
    /\ last.url \in DOMAIN htmlCache
    /\ now - htmlCache[last.url].timestamp = htmlCacheDurationMs
    /\ last.result = null

\* whether the HTML cache holds an entry for the url younger than the duration
FreshHtml(url) ==
    url \in DOMAIN htmlCache /\ now - htmlCache[url].timestamp < htmlCacheDurationMs

\* C13: fetchHtml(url) with a fresh htmlCache entry returns the cached content
\* and sends no request; otherwise it sends one request and, on a non-empty
\* response, stores (content, now) before returning the content; on an empty
\* response or an error it returns null and leaves htmlCache exactly as it was.
C13_FetchHtml ==
    [][ /\ (calls' = calls + 1 /\ last'.op \in {"fetchHtml", "httpClient.get"}) =>
             /\ htmlCache' = htmlCache
             /\ IF FreshHtml(last'.url)
                THEN /\ last'.op = "fetchHtml"
                     /\ ~last'.retrieved
                     /\ last'.result = Html(htmlCache[last'.url].content)
                     /\ pending' = pending
                ELSE /\ last'.op = "httpClient.get"
                     /\ pending' = [pending EXCEPT ![last'.url] = @ + 1]
        /\ (last'.op = "fetchHtml" /\ pending' # pending) =>
             /\ last'.retrieved
             /\ IF last'.response.ok /\ RawHtml(last'.response.body) # Empty
                THEN /\ last'.result = Html(last'.response.body)
                     /\ DOMAIN htmlCache' = DOMAIN htmlCache \cup {last'.url}
                     /\ htmlCache'[last'.url]
                           = [content |-> last'.response.body, timestamp |-> now]
                     /\ \A url \in DOMAIN htmlCache \ {last'.url} :
                           htmlCache'[url] = htmlCache[url]
                ELSE /\ last'.result = null
                     /\ htmlCache' = htmlCache ]_vars

\* a retrieval failed while an expired entry for the url was cached: null came
\* back and the expired entry is still there
C13_Witness ==
    /\ last.op = "fetchHtml"
    /\ last.retrieved
    /\ last.result = null
    /\ last.url \in DOMAIN htmlCache
    /\ now - htmlCache[last.url].timestamp >= htmlCacheDurationMs

\* C14: getMappedPlayerName returns the table's target when the input, trimmed
\* and compared ignoring case, equals a source key ('T. Horn' -> 'Horn',
\* 'Simons' -> 'Xavi'), and the input itself, untrimmed and in its own case,
\* otherwise.
C14_MappedOrUnchanged ==
    last.op = "getMappedPlayerName" =>
        LET key == toLowerCase(trim(last.playerName))
        IN  last.result =
               IF key = <<"t", ".", " ", "h", "o", "r", "n">> THEN <<"H", "o", "r", "n">>
               ELSE IF key = <<"s", "i", "m", "o", "n", "s">> THEN <<"X", "a", "v", "i">>
               ELSE last.playerName

\* a padded source key in another case was mapped to its target
C14_Witness ==
    /\ last.op = "getMappedPlayerName"
    /\ last.playerName = THornPadded
    /\ last.result = Horn

\* C15: isSamePlayer(a, b) is true exactly when the canonical names of a and b,
\* as getMappedPlayerName produces them, are equal ignoring case.
C15_SameIffCanonicalEqual ==
    last.op = "isSamePlayer" =>
        (last.result <=> Canonical(last.name1) = Canonical(last.name2))

\* the alias source 'T. Horn' and its target 'Horn' were compared and reported
\* as different players
C15_Witness ==
    /\ last.op = "isSamePlayer"
    /\ last.name1 = THorn
    /\ last.name2 = Horn
    /\ Canonical(last.name1) = Canonical(last.name2)
    /\ ~last.result

\* the positions of a node's .sub_child ancestors among its ancestors
SubChildrenAbove(node) ==
    {i \in 1..Len(node.ancestors) : node.ancestors[i].class = "sub_child"}

\* the nearest .sub_child ancestor of a node that has one
NearestSubChild(node) ==
    node.ancestors[CHOOSE i \in SubChildrenAbove(node) :
                      \A j \in SubChildrenAbove(node) : i <= j]

\* C16: doesPlayerMatchFilter is true without a filter and true when nothing on
\* the node's path matches the filter's selector; otherwise it is the filter's
\* condition on the nearest match: for STARTELF the nearest .sub_child ancestor
\* has display 'block'; for GESETZT (whose selector the roster node itself
\* matches) the nearest .sub_child ancestor, if any, holds no '.player_no .next_sub'.
C16_FilterRule ==
    last.op = "doesPlayerMatchFilter" =>
        last.result =
           IF last.filter = undefined THEN TRUE
           ELSE IF SubChildrenAbove(last.playerElement) = {} THEN TRUE
           ELSE IF last.filter.type = "STARTELF"
                THEN NearestSubChild(last.playerElement).display = "block"
                ELSE ~NearestSubChild(last.playerElement).nextSub

\* a node under two .sub_child elements: STARTELF fails it on the nearest one,
\* which is hidden, though the outer one is shown
C16_Witness ==
    /\ last.op = "doesPlayerMatchFilter"
    /\ last.playerElement = HornNested
    /\ last.filter = STARTELF_FILTER
    /\ ~last.result

\* how many nodes of a page are cached under each filter of a list, summed
RECURSIVE Writes(_, _)
Writes(html, filters) ==
    IF filters = << >> THEN 0
    ELSE Cardinality(Cached(html, Head(filters))) + Writes(html, Tail(filters))

C18_FailureDoesNotAbort ==
    last.op = "preparsePlayers" =>
        \A f \in Variants(last.domFilters) :
            \A i \in 1..Len(last.html) :
                ( /\ InContainer(last.html[i])
                  /\ trim(last.html[i].text) # Empty
                  /\ ~throws(last.html[i], f)
                  /\ doesPlayerMatchFilter(last.html[i], f) ) =>
                    Slot(last.teamUrl, trim(last.html[i].text), f) \in DOMAIN statusCache

\* the condition threw at the first node and the second node, on which nothing
\* throws, was left out of the cache
C18_Witness ==
    /\ last.op = "preparsePlayers"
    /\ last.domFilters = <<FAILING_FILTER>>
    /\ last.html = <<THornBanned, XaviOutside>> \/ last.html = <<THornBanned, HornFit>>
    /\ statusCache = EmptyMap
    /\ last.result = 0

\* a value of the shape of PlayerAvailabilityInfo
WellFormed(info) ==
    /\ DOMAIN info = {"isLikelyToPlay", "reason", "lastChecked"}
    /\ info.isLikelyToPlay \in BOOLEAN

\* a node inside the container on which the throwing filter's condition is called
Faulty(node) == InContainer(node) /\ SectionsAbove(node) # {}

Canon(info) == info.isLikelyToPlay <=> info.reason = NoReason

\* C20: every verdict stored in statusCache or returned by the parser is
\* available iff it has no reason; an unavailable verdict that preparsePlayers
\* stored has reason 'Verletzung oder Sperre'; 'Nicht im Kader' comes back from
\* the single lookup only and is never stored.
C20_CanonicalVerdicts ==
    /\ \A k \in DOMAIN statusCache :
          /\ Canon(statusCache[k].info)
          /\ ~statusCache[k].info.isLikelyToPlay =>
                statusCache[k].info.reason = "Verletzung oder Sperre"
          /\ statusCache[k].info.reason # "Nicht im Kader"
    /\ last.op = "parsePlayerStatus" => Canon(last.result)

\* a pass stored an available and an unavailable verdict
C20_Witness ==
    /\ last.op = "preparsePlayers"
    /\ \E k \in DOMAIN statusCache : statusCache[k].info.isLikelyToPlay
    /\ \E k \in DOMAIN statusCache : ~statusCache[k].info.isLikelyToPlay


---------------------------------------------------------------------------
\* the lowercase forms of the alias source spellings: names whose canonical
\* name differs from their own lowercase form
AliasSpellings ==
    {toLowerCase(n) : n \in {m \in AllNames : Canonical(m) # toLowerCase(m)}}

\* C21: in every reachable state the name component of every VerdictCache key
\* is the lowercased canonical name; no key is stored under the spelling of an
\* alias source
C21_KeyNameCanonical ==
    \A k \in DOMAIN statusCache :
        /\ k.name = Canonical(k.name)
        /\ k.name \notin AliasSpellings

\* a pass of services/HtmlParser.ts has cached a page that renders the alias
\* source spelling 'T. Horn' inside the stadium container
C21_Witness ==
    /\ last.op = "HtmlParser.preparsePlayers"
    /\ last.result > 0
    /\ \E i \in 1..Len(last.html) : last.html[i] = THornBanned


---------------------------------------------------------------------------
\* a step in which a fetchHtml call starts
FetchStarts == calls' = calls + 1 /\ last'.op \in {"fetchHtml", "httpClient.get"}

\* C22: in-flight fetches are not de-duplicated: a fetchHtml call that finds no
\* fresh PageCache entry sends its own request even while requests for the same
\* url are in flight, and every request in flight is completed by a retrieval
\* of its own, so N such calls make N retrievals.
C22_NoDeduplication ==
    [][ /\ (FetchStarts /\ ~FreshHtml(last'.url) /\ pending[last'.url] > 0) =>
             /\ last'.op = "httpClient.get"
             /\ pending'[last'.url] = pending[last'.url] + 1
        /\ \A url \in Urls :
             pending'[url] < pending[url] =>
                 /\ pending'[url] = pending[url] - 1
                 /\ last'.op = "fetchHtml" /\ last'.url = url /\ last'.retrieved ]_vars

\* two requests for the same url are in flight at once
C22_Witness == \E url \in Urls : pending[url] >= 2


---------------------------------------------------------------------------
\* C23: no lookup observes a half-populated VerdictCache: a pass of
\* preparsePlayers writes its rows with no suspension point between them, so
\* at every lookup no pass is part-way through, two passes are never part-way
\* through at once, and what a pass leaves is what it would have left had it
\* run alone on the cache it found when it began.
C23_PassIsAtomic ==
    /\ [](/\ Cardinality(Passes) <= 1
          /\ last.op = "fetchAndParsePlayerStatus" => Passes = {})
    /\ [][ (last'.op = "preparsePlayers" /\ calls' = calls) =>
              statusCache' = preparsePlayers(last'.before, last'.teamUrl, last'.html,
                                             last'.domFilters, last'.at).cache ]_vars

\* a lookup after two passes over the same url, the second a pass of several rows
C23_Witness ==
    /\ last.op = "fetchAndParsePlayerStatus"
    /\ calls = 2
    /\ \E k1, k2 \in DOMAIN statusCache :
          /\ k1.url = last.teamUrl /\ k2.url = last.teamUrl
          /\ k1.filter # k2.filter
          /\ statusCache[k1].timestamp # statusCache[k2].timestamp


---------------------------------------------------------------------------
\* C24: provided every request is settled at some time, every fetchHtml call
\* returns: no request stays pending for ever, and the call whose retrieval
\* was rejected or came back empty returns null.
C24_FetchReturns ==
    /\ \A url \in Urls : (pending[url] > 0) ~> (pending[url] = 0)
    /\ [][ \A url \in Urls :
             (pending'[url] # pending[url] /\ last'.op = "fetchHtml"
                /\ ~(last'.response.ok /\ RawHtml(last'.response.body) # Empty)) =>
                 /\ last'.result = null
                 /\ pending'[url] = pending[url] - 1 ]_vars

\* two calls for one url were pending and both have returned, the last one
\* with null after a retrieval that failed
C24_Witness ==
    /\ calls = 2
    /\ \A url \in Urls : pending[url] = 0
    /\ last.op = "fetchHtml" /\ last.retrieved /\ last.result = null
    /\ htmlCache = EmptyMap


---------------------------------------------------------------------------
\* a step in which a refreshTeamCache call starts
RefreshStarts ==
    /\ calls' = calls + 1
    /\ \/ last'.op = "refreshTeamCache"
       \/ /\ (calls + 1) \in DOMAIN inflight'
          /\ inflight'[calls + 1].op = "refreshTeamCache"

\* C25: refreshTeamCache(url) does not bypass PageCache: it sends a request only
\* when htmlCache holds no unexpired entry for url; with a fresh entry it runs
\* preparsePlayers on the cached content, so the entries it writes carry the
\* time of the refresh while the page keeps its older timestamp; when the
\* retrieval fails it returns 0 and leaves statusCache as it was.
C25_RefreshUsesPageCache ==
    [][ /\ RefreshStarts =>
             /\ htmlCache' = htmlCache
             /\ IF FreshHtml(last'.url)
                THEN /\ inflight' = inflight
                     /\ last'.op = "refreshTeamCache"
                     /\ ~last'.retrieved
                     /\ LET r == OnDemand_preparsePlayers(
                                     statusCache, last'.url,
                                     htmlCache[last'.url].content, OnDemand_FILTER_MAP, now)
                        IN  /\ statusCache' = r.cache
                            /\ last'.result = r.parsedCount
                     /\ \A k \in DOMAIN statusCache' :
                           (k \notin DOMAIN statusCache \/ statusCache'[k] # statusCache[k])
                              => statusCache'[k].timestamp = now /\ k.url = last'.url
                ELSE /\ last'.op = "httpClient.get"
                     /\ DOMAIN inflight' = DOMAIN inflight \cup {calls + 1}
                     /\ statusCache' = statusCache
        /\ (last'.op = "refreshTeamCache" /\ inflight' # inflight /\ last'.html = null) =>
             /\ last'.retrieved
             /\ last'.result = 0
             /\ statusCache' = statusCache
             /\ htmlCache' = htmlCache ]_vars

\* a refresh served by htmlCache: it wrote entries stamped later than the page
C25_Witness ==
    /\ last.op = "refreshTeamCache"
    /\ ~last.retrieved
    /\ last.result > 0
    /\ last.at = now
    /\ htmlCache[last.url].timestamp < now
    /\ \E k \in DOMAIN statusCache :
          k.url = last.url /\ statusCache[k].timestamp = now

\* a refresh whose retrieval failed while entries for the url were cached
C25_FailureWitness ==
    /\ last.op = "refreshTeamCache"
    /\ last.retrieved
    /\ last.html = null
    /\ \E k \in DOMAIN statusCache : k.url = last.url


---------------------------------------------------------------------------
\* a verdict without its time
Outcome(info) == [isLikelyToPlay |-> info.isLikelyToPlay, reason |-> info.reason]

\* C26: bulk preparse is idempotent on a fixed snapshot: a pass that repeats the
\* pass before it (same url, same html, same filters), at the same or a later
\* time, leaves the same set of keys and the same (isLikelyToPlay, reason)
\* under every key, and returns the same count; only timestamps may differ.
C26_PreparseIdempotent ==
    [][ (/\ calls' = calls + 1
         /\ last.op = "preparsePlayers" /\ last'.op = "preparsePlayers"
         /\ last'.teamUrl = last.teamUrl
         /\ last'.html = last.html
         /\ last'.domFilters = last.domFilters) =>
            /\ DOMAIN statusCache' = DOMAIN statusCache
            /\ \A k \in DOMAIN statusCache :
                  Outcome(statusCache'[k].info) = Outcome(statusCache[k].info)
            /\ last'.result = last.result ]_vars

\* a pass that wrote entries was repeated at a later time
C26_Witness ==
    /\ last.op = "preparsePlayers"
    /\ last.repeats # null
    /\ last.repeats.at < last.at
    /\ last.result > 1
    /\ \E k \in DOMAIN statusCache : ~statusCache[k].info.isLikelyToPlay


---------------------------------------------------------------------------
\* the on-demand call whose arguments `last` holds starts again in this step
SameCallStarts ==
    /\ calls' = calls + 1
    /\ \/ /\ last'.op = "OnDemand.fetchAndParsePlayerStatus"
          /\ last'.url = last.url
          /\ last'.playerName = last.playerName
          /\ last'.domFilter = last.domFilter
       \/ /\ (calls + 1) \in DOMAIN inflight'
          /\ inflight'[calls + 1].op = "OnDemand.fetchAndParsePlayerStatus"
          /\ inflight'[calls + 1].url = last.url
          /\ inflight'[calls + 1].playerName = last.playerName
          /\ inflight'[calls + 1].domFilter = last.domFilter

\* the on-demand call of `last` returned a verdict just now
VerdictJustReturned ==
    /\ last.op = "OnDemand.fetchAndParsePlayerStatus"
    /\ last.result # null
    /\ last.at = now

\* the key of the on-demand class for the call `last` holds
LastKey ==
    [url |-> last.url, name |-> toLowerCase(last.playerName),
     filter |-> FilterTag(last.domFilter)]

\* served from statusCache: the stored verdict, no retrieval, no parse
ServedFromCache ==
    /\ last'.op = "OnDemand.fetchAndParsePlayerStatus"
    /\ last'.result = last.result
    /\ ~last'.retrieved
    /\ ~last'.parsed
    /\ inflight' = inflight
    /\ statusCache' = statusCache

\* C27 as stated: in the on-demand variant every verdict obtained is written
\* through, so that the same call repeated at once is served from statusCache
\* without retrieval or parse.
C27_RepeatedCallIsServed ==
    [][ (VerdictJustReturned /\ SameCallStarts) => ServedFromCache ]_vars

\* C27: in the on-demand variant every verdict obtained by a parse is written
\* through under (url, lowercase name, filter type) with the time the call
\* began; the same call repeated at once is served from statusCache without
\* retrieval or parse when less than statusCacheDurationMs has passed since the
\* first call began; an entry that has expired is never returned.
C27_WriteThroughFromCallStart ==
    [][ /\ (last'.op = "OnDemand.fetchAndParsePlayerStatus" /\ last'.parsed
              /\ calls' + Cardinality(DOMAIN inflight') # calls + Cardinality(DOMAIN inflight)) =>
             LET key == [url |-> last'.url, name |-> toLowerCase(last'.playerName),
                         filter |-> FilterTag(last'.domFilter)]
             IN  /\ last'.result # null
                 /\ key \in DOMAIN statusCache'
                 /\ statusCache'[key].info = last'.result
                 /\ statusCache'[key].timestamp
                       = IF last'.retrieved THEN last'.started ELSE now
        /\ (/\ VerdictJustReturned
            /\ SameCallStarts
            /\ now - statusCache[LastKey].timestamp < statusCacheDurationMs) =>
               ServedFromCache
        /\ (/\ calls' = calls + 1
            /\ last'.op = "OnDemand.fetchAndParsePlayerStatus"
            /\ ~last'.parsed) =>
               LET key == [url |-> last'.url, name |-> toLowerCase(last'.playerName),
                           filter |-> FilterTag(last'.domFilter)]
               IN  /\ key \in DOMAIN statusCache
                   /\ now - statusCache[key].timestamp < statusCacheDurationMs
                   /\ last'.result = statusCache[key].info ]_vars

\* the second call was served from statusCache; the first had fetched the page
C27_Witness ==
    /\ last.op = "OnDemand.fetchAndParsePlayerStatus"
    /\ calls = 2
    /\ ~last.parsed
    /\ ~last.retrieved
    /\ last.domFilter = undefined
    /\ last.url \in DOMAIN htmlCache
    /\ statusCache[LastKey].info = last.result


---------------------------------------------------------------------------
\* the node's text matches the requested name in the widest sense the parsers
\* use: not blank, and containing or contained in the raw or the canonical name,
\* ignoring case
TextMatches(node, playerName) ==
    LET own == toLowerCase(trim(node.text))
    IN  /\ own # Empty
        /\ \E name \in {toLowerCase(playerName), Canonical(playerName)} :
              includes(own, name) \/ includes(name, own)

\* the in-container, filter-passing nodes whose text matches the requested name
NamedNodes(html, playerName, domFilter) ==
    {i \in playerNameDivs(html, domFilter) : TextMatches(html[i], playerName)}

\* C28: HtmlParser.parsePlayerStatus of services/HtmlParser.ts returns an
\* available or injured verdict only for a roster node whose text matches the
\* requested name: when no in-container, filter-passing node matches, the result
\* is 'Nicht im Kader', even if the name occurs elsewhere in the raw page text.
C28_VerdictNeedsNamedNode ==
    (/\ last.op = "HtmlParser.parsePlayerStatus"
     /\ NamedNodes(last.html, last.playerName, last.domFilter) = {}) =>
        /\ ~last.result.isLikelyToPlay
        /\ last.result.reason = "Nicht im Kader"

\* 'Horn' occurs only outside the stadium container, and the verdict returned
\* is that of another player's node inside it
C28_Witness ==
    /\ last.op = "HtmlParser.parsePlayerStatus"
    /\ last.playerName = Horn
    /\ last.result.reason = "Verletzung oder Sperre"
    /\ NamedNodes(last.html, last.playerName, last.domFilter) = {}
    /\ playerNameDivs(last.html, last.domFilter) # {}
    /\ includes(toLowerCase(RawHtml(last.html)), toLowerCase(last.playerName))


---------------------------------------------------------------------------
\* C29: no operation removes or invalidates a VerdictCache entry: a key once
\* written stays, and every later fetchAndParsePlayerStatus for it returns the
\* verdict stored under it, never the 'not pre-cached' sentinel, however old
\* the entry is and whatever later passes over the same url have written.
C29_EntriesAreNeverRemoved ==
    /\ [][DOMAIN statusCache \subseteq DOMAIN statusCache']_vars
    /\ [](last.op = "fetchAndParsePlayerStatus" =>
            LET key == Slot(last.teamUrl, last.playerName, last.domFilter)
            IN  key \in DOMAIN statusCache =>
                   /\ last.result = statusCache[key].info
                   /\ last.result.reason # NotPreCached)

\* a lookup returned an expired verdict that a later pass over the same url,
\* on a snapshot without the player, had left alone
C29_Witness ==
    /\ last.op = "fetchAndParsePlayerStatus"
    /\ LET key == Slot(last.teamUrl, last.playerName, last.domFilter)
       IN  /\ key \in DOMAIN statusCache
           /\ now - statusCache[key].timestamp >= statusCacheDurationMs
           /\ last.result = statusCache[key].info
           /\ \E other \in DOMAIN statusCache :
                 /\ other.url = key.url
                 /\ other.name # key.name
                 /\ statusCache[other].timestamp > statusCache[key].timestamp


---------------------------------------------------------------------------
\* what the node-matching steps of parsePlayerStatus return on their own:
\* container check, filter, two-way substring match, classification
NodeMatchingAlone(html, playerName, domFilter, t) ==
    LET matching == {i \in playerNameDivs(html, domFilter) :
                        nameMatches(html[i], playerName)}
    IN  IF matching # {}
        THEN classify(html[CHOOSE i \in matching : \A j \in matching : i <= j], t)
        ELSE createPlayerStatus(FALSE, "Nicht im Kader", t)

\* C30: the raw-text pre-check of PlayerStatusParser.parsePlayerStatus is a pure
\* optimisation: for every page, name and filter the (isLikelyToPlay, reason)
\* returned equals what the node-matching steps alone would return, also for
\* a requested name longer than the name the roster node renders.
C30_PreCheckIsPureOptimisation ==
    last.op = "parsePlayerStatus" =>
        Outcome(last.result)
           = Outcome(NodeMatchingAlone(last.html, last.playerName, last.domFilter, last.at))

\* 'J. Horn' was asked for on a page whose in-container node renders 'Horn':
\* the pre-check answered, and the node-matching steps would have found the node
C30_Witness ==
    /\ last.op = "parsePlayerStatus"
    /\ last.playerName = JHorn
    /\ ~last.loaded
    /\ last.result.reason = "Nicht im Kader"
    /\ NodeMatchingAlone(last.html, last.playerName, last.domFilter, last.at).isLikelyToPlay


---------------------------------------------------------------------------
\* C31: single lookup and bulk preparse agree on one snapshot: for the text n of
\* every in-container roster node and every filter variant f of the pass, an
\* entry the pass left under (url, n, f) has the (isLikelyToPlay, reason) that
\* parsePlayerStatus(html, n, f) returns, also when several nodes carry the
\* same or overlapping names.
C31_SingleAndBulkAgree ==
    last.op = "preparsePlayers" =>
        \A i \in 1..Len(last.html), f \in Variants(last.domFilters) :
            LET n == last.html[i].text
                key == Slot(last.teamUrl, n, f)
            IN  (isPlayerInStadiumContainer(last.html[i]) /\ key \in DOMAIN statusCache) =>
                    Outcome(statusCache[key].info)
                       = Outcome(parsePlayerStatus(last.html, n, f, last.at).result)

\* a pass over a page on which 'Horn' is fit in the first node and 'T. Horn',
\* the same player, is banned in the second
C31_Witness ==
    /\ last.op = "preparsePlayers"
    /\ last.html = <<HornFit, THornBanned>>
    /\ last.domFilters = << >>
    /\ ~statusCache[Slot(last.teamUrl, Horn, undefined)].info.isLikelyToPlay
    /\ parsePlayerStatus(last.html, Horn, undefined, last.at).result.isLikelyToPlay


---------------------------------------------------------------------------
---------------------------------------------------------------------------
\* C35: getMappedPlayerName is idempotent over the alias table: mapping the
\* mapped name again gives the mapped name, so the key that
\* getPlayerStatusFromCache builds from the mapped name (buildStatusCacheKey
\* maps once more) is the key built from the name itself.
C35_MappingIsIdempotent ==
    last.op = "getMappedPlayerName" =>
        /\ getMappedPlayerName(last.result) = last.result
        /\ \A url \in Urls, domFilter \in DomFilters :
              buildStatusCacheKey(url, last.result, domFilter)
                 = buildStatusCacheKey(url, last.playerName, domFilter)

\* the alias spelling, padded and in another case, was mapped to its target
C35_Witness ==
    /\ last.op = "getMappedPlayerName"
    /\ last.playerName = THornPadded
    /\ last.result = Horn


---------------------------------------------------------------------------
\* C33 (first half): under any interleaving of concurrent fetchHtml calls for
\* one URL the timestamp stored in htmlCache for that URL never decreases.
C33_TimestampNeverDecreases ==
    [][\A url \in DOMAIN htmlCache :
          /\ url \in DOMAIN htmlCache'
          /\ htmlCache'[url].timestamp >= htmlCache[url].timestamp]_vars

\* C33 (second half): when a successful retrieval completes, the entry it stored
\* is no older than the time that retrieval took.
C33_AgeWithinRetrievalTime ==
    (/\ last.op = "HtmlParser.fetchHtml" /\ last.retrieved /\ last.result # null
     /\ last.at = now) =>
        now - htmlCache[last.url].timestamp <= last.at - last.started

\* C33: in fetchHtml of services/HtmlParser.ts, under any interleaving of
\* concurrent calls for the same URL, the stored timestamp never decreases, and
\* the entry a successful retrieval has just stored is not older than the time
\* the retrieval took.
C33_ConcurrentFetchKeepsOrder ==
    /\ C33_TimestampNeverDecreases
    /\ []C33_AgeWithinRetrievalTime

\* a call that began before the entry in place was stamped returned after it
\* and put its own, earlier, timestamp in its place
C33_Witness ==
    /\ last.op = "HtmlParser.fetchHtml" /\ last.retrieved /\ last.result # null
    /\ last.replaced # null
    /\ last.replaced.timestamp > htmlCache[last.url].timestamp


---------------------------------------------------------------------------
\* C34 (first half): the page a VerdictCache entry was derived from was
\* retrieved from the network no earlier than statusCacheDuration before the
\* entry's timestamp; the entries of a pass carry the time of the pass.
C34_PageNoOlderThanStatusDuration ==
    last.op = "preloadCommonTeams" =>
        \A url \in DOMAIN last.passes :
            last.at - last.passes[url].retrievedAt <= statusCacheDurationMs

\* C34 (second half): a verdict that counts as fresh reflects page content
\* younger than twice statusCacheDuration.
C34_FreshVerdictFromYoungPage ==
    last.op = "preloadCommonTeams" =>
        \A url \in DOMAIN last.passes :
            now - last.at < statusCacheDurationMs =>
                now - last.passes[url].retrievedAt < 2 * statusCacheDurationMs

\* C34: freshness across the two cache levels under the production
\* configuration (HTML cache 60 min, status cache 30 min, preload every 30
\* min): every VerdictCache entry stems from a page retrieved no earlier than
\* statusCacheDuration before the entry's timestamp, so that a fresh verdict
\* reflects a page younger than twice statusCacheDuration.
C34_FreshnessAcrossLevels ==
    /\ C34_PageNoOlderThanStatusDuration
    /\ C34_FreshVerdictFromYoungPage

\* the third run read from htmlCache a page retrieved in the first run, three
\* quarters of an hour before, and cached verdicts from it
C34_Witness ==
    /\ last.op = "preloadCommonTeams"
    /\ last.run = 2
    /\ \E url \in DOMAIN last.passes :
          /\ ~last.passes[url].retrieved
          /\ last.at - last.passes[url].retrievedAt > statusCacheDurationMs
          /\ \E k \in DOMAIN statusCache : k.url = url /\ statusCache[k].timestamp = last.at


---------------------------------------------------------------------------
\* the VerdictCache slots of the named nodes of a page inside the container
Roster(url, html) ==
    {Slot(url, html[i].text, undefined) : i \in Cached(html, undefined)}

\* C36 (no rollback, no prevention): a step in which a team's callback fails
\* leaves every VerdictCache entry as it is and every other callback waiting.
C36_FailureTouchesNoOtherTeam ==
    [][(inflight' # inflight /\ last'.op = "preloadCommonTeams" /\ last'.failed # {}) =>
          /\ statusCache' = statusCache
          /\ DOMAIN inflight' = DOMAIN inflight \ {<<last'.run, url>> : url \in last'.failed}
      ]_vars

\* C36 (population): the roster of a page a callback has parsed is in
\* VerdictCache, whatever became of the other teams.
C36_ParsedTeamIsCached ==
    last.op = "preloadCommonTeams" =>
        \A url \in DOMAIN last.passes :
            Roster(url, last.passes[url].html) \subseteq DOMAIN statusCache

\* C36 (completion): the callbacks that wait for their retrieval all finish,
\* so that Promise.all settles.
C36_RunCompletes == (inflight # EmptyMap) ~> (inflight = EmptyMap)

\* C36: within one preloadCommonTeams run the teams are independent: a failed
\* fetch or preparse for one team neither prevents nor rolls back the
\* population of VerdictCache for another, the run always completes, and,
\* retrievals settling, a team whose retrieval succeeds has its roster entries
\* in VerdictCache.
C36_TeamsAreIndependent ==
    /\ C36_FailureTouchesNoOtherTeam
    /\ [][DOMAIN statusCache \subseteq DOMAIN statusCache']_vars
    /\ []C36_ParsedTeamIsCached
    /\ C36_RunCompletes

\* the first run is over: one team's retrieval succeeded and its roster is
\* cached although the other team's callback had failed before
C36_Witness ==
    /\ last.op = "preloadCommonTeams" /\ last.run = 0 /\ calls = 1
    /\ inflight = EmptyMap
    /\ "dortmund" \in DOMAIN last.passes
    /\ last.passes["dortmund"].retrieved
    /\ Roster("dortmund", last.passes["dortmund"].html) # {}
    /\ \A k \in DOMAIN statusCache : k.url # "bayern"


---------------------------------------------------------------------------
\* whether a name is in a list of names
Listed(name, list) == \E j \in 1..Len(list) : list[j] = name

\* C37: after the /check-team-availability handler has awaited all per-player
\* checks, for every requested player p availabilityMap[p.id] is defined, and
\* p.firstName is in unavailablePlayers if and only if
\* availabilityMap[p.id].isLikelyToPlay is false, also when a check throws or
\* returns null.
C37_ListMatchesMap ==
    (last.op = "check-team-availability" /\ last.status = 200) =>
        \A i \in 1..Len(last.players) :
            LET p == last.players[i]
            IN  /\ p.id \in DOMAIN last.availabilityMap
                /\ Listed(p.firstName, last.unavailablePlayers)
                      <=> ~last.availabilityMap[p.id].isLikelyToPlay

\* C37 (what holds): every requested player has an entry in availabilityMap,
\* and every player whose check returned, with a verdict or with null, and
\* whose entry says isLikelyToPlay = false is listed in unavailablePlayers.
C37_ReturnedChecksAreListed ==
    (last.op = "check-team-availability" /\ last.status = 200) =>
        \A i \in 1..Len(last.players) :
            LET p == last.players[i]
            IN  /\ p.id \in DOMAIN last.availabilityMap
                /\ (p.firstName # undefined /\ ~last.availabilityMap[p.id].isLikelyToPlay)
                      => Listed(p.firstName, last.unavailablePlayers)

\* a request of two players, the second without a firstName: its check threw,
\* its entry says isLikelyToPlay = false, and unavailablePlayers does not hold it
C37_Witness ==
    /\ last.op = "check-team-availability" /\ last.status = 200
    /\ Len(last.players) = 2
    /\ last.players[2].firstName = undefined
    /\ ~last.availabilityMap["2"].isLikelyToPlay
    /\ ~Listed(undefined, last.unavailablePlayers)

=============================================================================
